---- MODULE Spec2Model ----
(***************************************************************************)
(* Sky Cafe & Board Game invoice management: the reporting core of         *)
(* src/google_sheets_api.py (class GoogleSheetsAPI).                       *)
(*                                                                         *)
(* Python values are tagged records (PyNone, PyStr, PyInt, PyFloat);       *)
(* a Python string is a sequence of one-character strings, so that strip,  *)
(* split, replace, zfill, int() and float() are computed character by      *)
(* character as the interpreter computes them.                             *)
(***************************************************************************)
EXTENDS Integers, Sequences, FiniteSets, TLC

VARIABLES
    hoa_don,      \* rows of sheet HOA_DON as worksheet.get_all_records() returns them
    khach_hang,   \* sheet KHACH_HANG as worksheet.get_all_values() returns it (header row first)
    san_pham,     \* rows of sheet SAN_PHAM as worksheet.get_all_records() returns them
    thong_ke,     \* rows appended to sheet THONG_KE, as written
    call,         \* the invocation in progress: the method and its arguments
    ret           \* what the invocation returned (Pending before it returns)

vars == <<hoa_don, khach_hang, san_pham, thong_ke, call, ret>>

(***************************************************************************)
(* Python values                                                           *)
(***************************************************************************)
PyNone == [t |-> "none"]
PyStr(s) == [t |-> "str", s |-> s]
PyInt(n) == [t |-> "int", n |-> n]
\* a float m * 10^e, kept normalised (see Norm): m has no trailing zero digit
PyFloat(m, e) == [t |-> "float", m |-> m, e |-> e]
\* a list, held as the sequence of its items
PyList(items) == [t |-> "list", items |-> items]
Pending == [t |-> "pending"]

\* the currency marker, the one character U+0111 (d with stroke)
Dong == "d-"

Digits == {"0", "1", "2", "3", "4", "5", "6", "7", "8", "9"}

DigitVal(c) ==
    CASE c = "0" -> 0 [] c = "1" -> 1 [] c = "2" -> 2 [] c = "3" -> 3 [] c = "4" -> 4
      [] c = "5" -> 5 [] c = "6" -> 6 [] c = "7" -> 7 [] c = "8" -> 8 [] c = "9" -> 9

DigitChar(d) ==
    CASE d = 0 -> "0" [] d = 1 -> "1" [] d = 2 -> "2" [] d = 3 -> "3" [] d = 4 -> "4"
      [] d = 5 -> "5" [] d = 6 -> "6" [] d = 7 -> "7" [] d = 8 -> "8" [] d = 9 -> "9"

\* the code point of a character: Python orders strings by code point
Ord(c) ==
    CASE c = " " -> 32 [] c = "'" -> 39 [] c = "+" -> 43 [] c = "," -> 44
      [] c = "-" -> 45 [] c = "." -> 46 [] c = "/" -> 47 [] c \in Digits -> 48 + DigitVal(c)
      [] c = ":" -> 58 [] c = "A" -> 65 [] c = "B" -> 66 [] c = "T" -> 84
      [] c = "e" -> 101 [] c = "n" -> 110 [] c = "u" -> 117 [] c = "x" -> 120
      [] c = Dong -> 273 [] c = "a^" -> 7847

\* str < str; taken for the <= of line 95 it is a slip that excludes the bounds
StrLess(a, b) == a # b /\
    LET n == CHOOSE k \in 0..Len(a) :
                 /\ k <= Len(b)
                 /\ \A j \in 1..k : a[j] = b[j]
                 /\ (k = Len(a) \/ k = Len(b) \/ a[k + 1] # b[k + 1])
    IN IF n = Len(a) THEN TRUE
       ELSE IF n = Len(b) THEN FALSE
       ELSE Ord(a[n + 1]) < Ord(b[n + 1])

\* str <= str
RECURSIVE StrLeq(_, _)
StrLeq(a, b) ==
    IF a = <<>> THEN TRUE
    ELSE IF b = <<>> THEN FALSE
    ELSE IF a[1] = b[1] THEN StrLeq(Tail(a), Tail(b))
    ELSE Ord(a[1]) < Ord(b[1])

\* str.strip(): leading and trailing whitespace removed
RECURSIVE LStrip(_)
LStrip(s) == IF s # <<>> /\ s[1] = " " THEN LStrip(Tail(s)) ELSE s

RECURSIVE RStrip(_)
RStrip(s) ==
    IF s # <<>> /\ s[Len(s)] = " " THEN RStrip(SubSeq(s, 1, Len(s) - 1)) ELSE s

Strip(s) == RStrip(LStrip(s))

\* c in s
Contains(s, c) == \E i \in 1..Len(s) : s[i] = c

\* str.split(c): the parts between the occurrences of c (always at least one part)
RECURSIVE Split(_, _)
Split(s, c) ==
    IF ~Contains(s, c) THEN <<s>>
    ELSE LET i == CHOOSE k \in 1..Len(s) : s[k] = c /\ \A j \in 1..(k - 1) : s[j] # c
         IN <<SubSeq(s, 1, i - 1)>> \o Split(SubSeq(s, i + 1, Len(s)), c)

\* str.replace(c, ''): every occurrence of character c removed
Remove(s, c) == SelectSeq(s, LAMBDA x : x # c)

RECURSIVE Zeros(_)
Zeros(n) == IF n <= 0 THEN <<>> ELSE <<"0">> \o Zeros(n - 1)

\* str.zfill(width) without the padding: a slip that forgets to pad
ZfillNoPad(s, width) == s

\* str.zfill(width): zeros on the left up to width, after a leading sign
Zfill(s, width) ==
    IF Len(s) >= width THEN s
    ELSE IF s # <<>> /\ s[1] \in {"+", "-"}
         THEN <<s[1]>> \o Zeros(width - Len(s)) \o Tail(s)
         ELSE Zeros(width - Len(s)) \o s

IsDigits(s) == s # <<>> /\ \A i \in 1..Len(s) : s[i] \in Digits

RECURSIVE DigitsVal(_)
DigitsVal(s) ==
    IF s = <<>> THEN 0
    ELSE 10 * DigitsVal(SubSeq(s, 1, Len(s) - 1)) + DigitVal(s[Len(s)])

\* str.isdigit()
IsDigit(s) == IsDigits(s)

HasSign(s) == s # <<>> /\ s[1] \in {"+", "-"}
Unsigned(s) == IF HasSign(s) THEN Tail(s) ELSE s
SignOf(s) == IF s # <<>> /\ s[1] = "-" THEN -1 ELSE 1

\* int(str) succeeds: optional whitespace around an optionally signed run of digits
IntParses(s) == IsDigits(Unsigned(Strip(s)))
\* int(str), where it succeeds
IntOf(s) == SignOf(Strip(s)) * DigitsVal(Unsigned(Strip(s)))

\* str(int)
RECURSIVE NatStr(_)
NatStr(n) == IF n < 10 THEN <<DigitChar(n)>> ELSE NatStr(n \div 10) \o <<DigitChar(n % 10)>>

IntStr(n) == IF n < 0 THEN <<"-">> \o NatStr(-n) ELSE NatStr(n)

RECURSIVE Pow10(_)
Pow10(k) == IF k <= 0 THEN 1 ELSE 10 * Pow10(k - 1)

\* the float m * 10^e with the trailing zero digits of m moved into e; zero is 0 * 10^0
RECURSIVE Norm(_, _)
Norm(m, e) ==
    IF m = 0 THEN PyFloat(0, 0)
    ELSE IF m % 10 = 0 THEN Norm(m \div 10, e + 1)
    ELSE PyFloat(m, e)

\* repr(float) for the floats between 1e-4 and 1e16 in size, which Python writes in
\* positional notation: "500.0", "12.5", "0.5"
FloatStr(f) ==
    IF f.e >= 0 THEN IntStr(f.m * Pow10(f.e)) \o <<".", "0">>
    ELSE LET k == -f.e
             a == IF f.m < 0 THEN -f.m ELSE f.m
             frac == NatStr(a % Pow10(k))
         IN (IF f.m < 0 THEN <<"-">> ELSE <<>>) \o NatStr(a \div Pow10(k))
              \o <<".">> \o Zeros(k - Len(frac)) \o frac

\* bool(value): None, '', 0 and 0.0 are false
Truthy(v) ==
    CASE v.t = "none" -> FALSE
      [] v.t = "str" -> v.s # <<>>
      [] v.t = "int" -> v.n # 0
      [] v.t = "float" -> v.m # 0

\* str(value), for the values above that are truthy
StrOf(v) ==
    CASE v.t = "str" -> v.s
      [] v.t = "int" -> IntStr(v.n)
      [] v.t = "float" -> FloatStr(v)

(***************************************************************************)
(* GoogleSheetsAPI._parse_invoice_date                                     *)
(***************************************************************************)
\* DD/MM/YYYY HH:MM -> YYYY-MM-DD, or None; an exception inside is caught and gives None
_parse_invoice_date(invoice_date_str) ==
    IF ~Truthy(invoice_date_str) THEN PyNone
    ELSE
      LET str == Strip(StrOf(invoice_date_str))
          date_part == IF Contains(str, " ") THEN Split(str, " ")[1] ELSE str
          date_parts == Split(date_part, "/")
      IN IF Len(date_parts) # 3 THEN PyNone
         ELSE
           LET day == Zfill(date_parts[1], 2)
               month == Zfill(date_parts[2], 2)
               year == Zfill(date_parts[3], 4)
           IN IF Len(year) # 4 THEN PyNone
              ELSE IF ~IntParses(month) THEN PyNone      \* int(month) raises
              ELSE IF IntOf(month) > 12 THEN PyNone
              ELSE IF ~IntParses(day) THEN PyNone        \* int(day) raises
              ELSE IF IntOf(day) > 31 THEN PyNone
              ELSE PyStr(year \o <<"-">> \o month \o <<"-">> \o day)

(***************************************************************************)
(* GoogleSheetsAPI._safe_parse_amount                                      *)
(***************************************************************************)
\* float('inf'): what float() gives when the literal is beyond the largest double
PyInf(sign) == [t |-> "inf", m |-> sign]

NumDigits(n) == Len(NatStr(n))
Abs(n) == IF n < 0 THEN -n ELSE n

\* float(str) succeeds. With '.' already removed the literals float() accepts are
\* [blanks][sign]digits[e[sign]digits][blanks]; the spellings inf, nan, an upper-case E
\* and '_' between digits need characters outside the alphabets used here.
FloatParses(s) ==
    LET u == Unsigned(Strip(s))
        p == Split(u, "e")
    IN /\ Len(p) \in {1, 2}
       /\ IsDigits(p[1])
       /\ Len(p) = 2 => IsDigits(Unsigned(p[2]))

\* float(str), where it succeeds; a literal of 1.8e308 or more is inf (decided on the
\* first two significant digits, exact for mantissas of at most two digits)
FloatOf(s) ==
    LET u == Unsigned(Strip(s))
        p == Split(u, "e")
        m == SignOf(Strip(s)) * DigitsVal(p[1])
        x == IF Len(p) = 2 THEN SignOf(p[2]) * DigitsVal(Unsigned(p[2])) ELSE 0
        f == Norm(m, x)
        mag == f.e + NumDigits(Abs(f.m)) - 1
        lead2 == IF Abs(f.m) < 10 THEN 10 * Abs(f.m) ELSE Abs(f.m) \div Pow10(NumDigits(Abs(f.m)) - 2)
    IN IF f.m # 0 /\ (mag > 308 \/ (mag = 308 /\ lead2 >= 18))
       THEN PyInf(SignOf(Strip(s)))
       ELSE f

\* the cleaning of line 69 without the removal of ',': a slip that keeps the grouping commas
CleanAmountKeepCommas(s) == Remove(Remove(s, Dong), ".")

\* amount_str.replace(currency marker, '').replace(',', '').replace('.', '')
CleanAmount(s) == Remove(Remove(Remove(s, Dong), ","), ".")

\* "Safely parse amount string to float": 0.0 for a false value, for an empty remainder
\* and whenever anything raises
_safe_parse_amount(amount_str) ==
    IF ~Truthy(amount_str) THEN PyFloat(0, 0)
    ELSE
      LET cleaned == CleanAmount(Strip(StrOf(amount_str)))
      IN IF cleaned = <<>> THEN PyFloat(0, 0)
         ELSE IF ~FloatParses(cleaned) THEN PyFloat(0, 0)    \* float() raises ValueError
         ELSE FloatOf(cleaned)

(***************************************************************************)
(* GoogleSheetsAPI._filter_invoices_by_date                                *)
(*                                                                         *)
(* An invoice record is the dict get_all_records() builds from a row of    *)
(* HOA_DON; its fields are named after the header cells:                   *)
(*   so_hd 'So HD', ngay_gio 'Ngay Gio', ma_kh 'Ma KH', ten_khach 'Ten     *)
(*   Khach', chi_tiet_sp 'Chi Tiet SP (JSON)', tong_thanh_toan 'Tong Thanh *)
(*   Toan', hinh_thuc_tt 'Hinh Thuc TT'.                                   *)
(***************************************************************************)
\* the filter with its parse moved before the guard: a slip that drops the records
\* whose date does not parse even when no range is given
FilterDropsUnparsable(invoice_data, date_from, date_to) ==
    SelectSeq(invoice_data,
        LAMBDA invoice :
            LET formatted_date == _parse_invoice_date(invoice.ngay_gio)
            IN /\ formatted_date # PyNone
               /\ (Truthy(date_from) /\ Truthy(date_to))
                     => /\ StrLeq(date_from.s, formatted_date.s)
                        /\ StrLeq(formatted_date.s, date_to.s))

_filter_invoices_by_date(invoice_data, date_from, date_to) ==
    IF ~Truthy(date_from) \/ ~Truthy(date_to) THEN invoice_data
    ELSE SelectSeq(invoice_data,
            LAMBDA invoice :
                LET formatted_date == _parse_invoice_date(invoice.ngay_gio)
                IN /\ formatted_date # PyNone
                   /\ StrLeq(date_from.s, formatted_date.s)
                   /\ StrLeq(formatted_date.s, date_to.s))

(***************************************************************************)
(* Results, numbers and JSON                                               *)
(***************************************************************************)
\* {'success': True, 'data': data} and {'success': False, 'message': message}
Success(data) == [t |-> "dict", success |-> TRUE, data |-> data]
Failure(message) == [t |-> "dict", success |-> FALSE, message |-> message]

\* a key the dict does not hold
Absent == [t |-> "absent"]
\* dict.get(key, default)
Get(d, key, default) == IF d[key] = Absent THEN default ELSE d[key]

Min(a, b) == IF a < b THEN a ELSE b

\* float + float
FAdd(a, b) ==
    LET x == Min(a.e, b.e)
    IN Norm(a.m * Pow10(a.e - x) + b.m * Pow10(b.e - x), x)

\* float < float
FLess(a, b) ==
    LET x == Min(a.e, b.e)
    IN a.m * Pow10(a.e - x) < b.m * Pow10(b.e - x)

\* sum(...) of floats, added left to right: the int 0 for no terms, a float otherwise
RECURSIVE FSumTo(_, _)
FSumTo(xs, k) == IF k = 0 THEN PyFloat(0, 0) ELSE FAdd(FSumTo(xs, k - 1), xs[k])
FSum(xs) == FSumTo(xs, Len(xs))
PySum(xs) == IF xs = <<>> THEN PyInt(0) ELSE FSum(xs)

\* the float an int or a float stands for
AsFloat(v) == IF v.t = "int" THEN Norm(v.n, 0) ELSE v

\* [self._safe_parse_amount(inv.get('Tong Thanh Toan', 0)) for inv in invoice_data]
ParsedTotals(invoice_data) ==
    [i \in 1..Len(invoice_data) |->
        _safe_parse_amount(Get(invoice_data[i], "tong_thanh_toan", PyInt(0)))]

\* a str cell holding JSON text, represented by the value json.loads decodes it to;
\* a str that is not JSON text is a PyStr, a cell the sheet numericised is a PyInt
JsonText(v) == [t |-> "jsonstr", v |-> v]
\* a JSON object with the keys name, quantity, total (Absent for a key it lacks)
LineItem(name, quantity, total) ==
    [t |-> "dict", name |-> name, quantity |-> quantity, total |-> total]

\* json.loads(cell) does not raise
JsonLoads(cell) == cell.t = "jsonstr"

\* int(value) does not raise, and its value: int(str) parses, int(float) truncates
\* toward zero, int(None) raises TypeError
PyIntParses(v) ==
    CASE v.t = "int" -> TRUE
      [] v.t = "float" -> TRUE
      [] v.t = "str" -> IntParses(v.s)
      [] OTHER -> FALSE
PyIntOf(v) ==
    CASE v.t = "int" -> v.n
      [] v.t = "float" ->
            IF v.e >= 0 THEN v.m * Pow10(v.e)
            ELSE (IF v.m < 0 THEN -1 ELSE 1) * (Abs(v.m) \div Pow10(-v.e))
      [] v.t = "str" -> IntOf(v.s)

\* sorted(xs, key=lambda x: x[key]) with the float keys taken the other way round: a
\* slip that ranks the lowest key first
SortAsc(xs, key) ==
    LET ahead(i) == Cardinality({ j \in 1..Len(xs) :
                        FLess(xs[j][key], xs[i][key])
                        \/ (j < i /\ ~FLess(xs[i][key], xs[j][key])) })
    IN [k \in 1..Len(xs) |-> xs[CHOOSE i \in 1..Len(xs) : ahead(i) = k - 1]]

\* sorted(xs, key=lambda x: x[key], reverse=True) for float keys: a stable sort, items
\* of equal key keep their order
SortDesc(xs, key) ==
    LET \* the number of items the sort puts ahead of xs[i]: those of a greater key, and
        \* those of an equal key that come earlier
        ahead(i) == Cardinality({ j \in 1..Len(xs) :
                        FLess(xs[i][key], xs[j][key])
                        \/ (j < i /\ ~FLess(xs[j][key], xs[i][key])) })
    IN [k \in 1..Len(xs) |-> xs[CHOOSE i \in 1..Len(xs) : ahead(i) = k - 1]]

(***************************************************************************)
(* GoogleSheetsAPI.get_product_stats                                       *)
(***************************************************************************)
\* the length of the list get_product_stats returns at most
TopProducts == 10

\* processing the line item raises: it is no dict (no .get), or int(quantity) raises
LineItemRaises(product) ==
    \/ product.t # "dict"
    \/ ~PyIntParses(Get(product, "quantity", PyInt(0)))

\* the line items the loop body of one invoice adds to product_stats: none when
\* json.loads raises or its value cannot be iterated, else those ahead of the first
\* line item that raises (except: continue leaves the rest of the invoice out)
AddedLineItems(invoice) ==
    LET cell == invoice.chi_tiet_sp
        products == cell.v.items
        raising == { i \in 1..Len(products) : LineItemRaises(products[i]) }
        done == IF raising = {} THEN Len(products)
                ELSE (CHOOSE i \in raising : \A j \in raising : i <= j) - 1
    IN IF ~JsonLoads(cell) THEN <<>>
       ELSE IF cell.v.t # "list" THEN <<>>
       ELSE SubSeq(products, 1, done)

\* the line items added over the first k invoices, in the order of the two loops
RECURSIVE AddedLineItemsTo(_, _)
AddedLineItemsTo(invoice_data, k) ==
    IF k = 0 THEN <<>>
    ELSE AddedLineItemsTo(invoice_data, k - 1) \o AddedLineItems(invoice_data[k])

RECURSIVE QuantityTo(_, _)
QuantityTo(products, k) ==
    IF k = 0 THEN 0
    ELSE QuantityTo(products, k - 1) + PyIntOf(Get(products[k], "quantity", PyInt(0)))

RECURSIVE RevenueTo(_, _)
RevenueTo(products, k) ==
    IF k = 1 THEN _safe_parse_amount(Get(products[1], "total", PyInt(0)))
    ELSE FAdd(RevenueTo(products, k - 1), _safe_parse_amount(Get(products[k], "total", PyInt(0))))

\* product_stats.values() after the loops: one entry per name, in the order the names
\* first occur (a dict keeps insertion order); the first line item of a name sets its
\* entry and each later one adds its quantity and total to it
AccumulateProducts(invoice_data) ==
    LET added == AddedLineItemsTo(invoice_data, Len(invoice_data))
        name(i) == Get(added[i], "name", PyStr(<<>>))
        first == { i \in 1..Len(added) : \A j \in 1..(i - 1) : name(j) # name(i) }
        entry(i) ==
            LET products == SelectSeq(added, LAMBDA product :
                                Get(product, "name", PyStr(<<>>)) = name(i))
            IN [name |-> name(i),
                quantity |-> QuantityTo(products, Len(products)),
                revenue |-> RevenueTo(products, Len(products))]
    IN [k \in 1..Cardinality(first) |->
            entry(CHOOSE i \in first : Cardinality({ j \in first : j < i }) = k - 1)]

\* sorted(product_stats.values(), key=revenue, reverse=True)
SortedProducts(product_stats) == SortDesc(product_stats, "revenue")

\* get_product_stats without the except of line 749: a slip in which one invoice whose
\* line items do not parse aborts the aggregation with a failure result
GetProductStatsAborting(invoices, date_from, date_to, sheets_ok) ==
    IF ~sheets_ok THEN Failure("Khong the lay du lieu hoa don")
    ELSE
      LET invoice_data == _filter_invoices_by_date(invoices, date_from, date_to)
          sorted_products == SortedProducts(AccumulateProducts(invoice_data))
      IN IF \E i \in 1..Len(invoice_data) : ~JsonLoads(invoice_data[i].chi_tiet_sp)
         THEN Failure("Expecting value")
         ELSE Success(PyList(SubSeq(sorted_products, 1, Min(TopProducts, Len(sorted_products)))))

\* sheets_ok: the read of HOA_DON in get_invoices succeeds
get_product_stats(invoices, date_from, date_to, sheets_ok) ==
    IF ~sheets_ok THEN Failure("Khong the lay du lieu hoa don")
    ELSE
      LET invoice_data == _filter_invoices_by_date(invoices, date_from, date_to)
          sorted_products == SortedProducts(AccumulateProducts(invoice_data))
      IN Success(PyList(SubSeq(sorted_products, 1, Min(TopProducts, Len(sorted_products)))))

(***************************************************************************)
(* Inputs of the date normaliser: '/'-joined components, optionally        *)
(* preceded by a blank and followed by a time                              *)
(***************************************************************************)
\* at most this many '/'-separated components in a timestamp
MaxParts == 4

DayParts ==
    { <<"5">>, <<"0", "5">>, <<"1", "5">>, <<"3", "1">>, <<"3", "2">>, <<"0">>,
      <<"0", "0", "5">>, <<"-", "5">>, <<"x">>, <<>> }
MonthParts ==
    { <<"3">>, <<"0", "3">>, <<"1", "2">>, <<"1", "3">>, <<"0">>, <<"+", "3">>, <<"x">>, <<>> }
YearParts ==
    { <<"2", "0", "2", "4">>, <<"2", "0", "2", "3">>, <<"2", "4">>,
      <<"2", "0", "2", "4", "5">>, <<"x">>, <<>> }
ExtraParts == { <<"5">>, <<>> }
LeadBlanks == { <<>>, <<" ">> }
TimeSuffixes == { <<>>, <<" ", "1", "0", ":", "0", "0">>, <<" ">> }

PartsAt(i) ==
    CASE i = 1 -> DayParts [] i = 2 -> MonthParts [] i = 3 -> YearParts [] OTHER -> ExtraParts

RECURSIVE PartsSeqs(_)
PartsSeqs(k) ==
    IF k = 0 THEN { <<>> }
    ELSE { Append(p, x) : p \in PartsSeqs(k - 1), x \in PartsAt(k) }

\* sep.join(parts)
RECURSIVE Join(_, _)
Join(parts, sep) ==
    IF parts = <<>> THEN <<>>
    ELSE IF Len(parts) = 1 THEN parts[1]
    ELSE parts[1] \o <<sep>> \o Join(Tail(parts), sep)

DateCalls ==
    { [op |-> "_parse_invoice_date", parts |-> p, lead |-> l, time |-> t,
       arg |-> PyStr(l \o Join(p, "/") \o t)] :
        p \in UNION { PartsSeqs(k) : k \in 0..MaxParts }, l \in LeadBlanks, t \in TimeSuffixes }

InitDate ==
    /\ hoa_don = <<>>
    /\ khach_hang = <<>>
    /\ san_pham = <<>>
    /\ thong_ke = <<>>
    /\ call \in DateCalls
    /\ ret = Pending

ParseInvoiceDate ==
    /\ call.op = "_parse_invoice_date"
    /\ ret = Pending
    /\ ret' = _parse_invoice_date(call.arg)
    /\ UNCHANGED <<hoa_don, khach_hang, san_pham, thong_ke, call>>

NextDate == ParseInvoiceDate

SpecDate == InitDate /\ [][NextDate]_vars

\* n written with exactly w decimal digits
RECURSIVE PadNum(_, _)
PadNum(n, w) == IF w = 0 THEN <<>> ELSE PadNum(n \div 10, w - 1) \o <<DigitChar(n % 10)>>

\* a day/month/year triple of plain digit runs naming a day 1..31, a month 1..12 and a
\* year of at most four digits
ValidTriple(p) ==
    /\ Len(p) = 3
    /\ IsDigits(p[1]) /\ Len(p[1]) <= 2 /\ DigitsVal(p[1]) \in 1..31
    /\ IsDigits(p[2]) /\ Len(p[2]) <= 2 /\ DigitsVal(p[2]) \in 1..12
    /\ IsDigits(p[3]) /\ Len(p[3]) <= 4

DateKey(p) ==
    PadNum(DigitsVal(p[3]), 4) \o <<"-">> \o PadNum(DigitsVal(p[2]), 2)
        \o <<"-">> \o PadNum(DigitsVal(p[1]), 2)

DateDone == call.op = "_parse_invoice_date" /\ ret # Pending

\* C1: _parse_invoice_date returns the zero-padded key YYYY-MM-DD for a valid
\* day/month/year triple separated by '/'; it returns None when the month is above 12,
\* when the day is above 31, when the date part does not have exactly three components,
\* and when the input is empty; blanks around the input and a trailing time are ignored.
C1_ParseInvoiceDate ==
    DateDone =>
        /\ ValidTriple(call.parts) => ret = PyStr(DateKey(call.parts))
        /\ Len(call.parts) # 3 => ret = PyNone
        /\ (Len(call.parts) = 3 /\ IsDigits(call.parts[2]) /\ DigitsVal(call.parts[2]) > 12)
              => ret = PyNone
        /\ (Len(call.parts) = 3 /\ IsDigits(call.parts[1]) /\ DigitsVal(call.parts[1]) > 31)
              => ret = PyNone
        /\ call.arg = PyStr(<<>>) => ret = PyNone
        /\ ret = _parse_invoice_date(PyStr(Join(call.parts, "/")))

\* 5/3/2024 followed by a time normalises to 2024-03-05
C1_Witness ==
    /\ DateDone
    /\ call.parts = << <<"5">>, <<"3">>, <<"2", "0", "2", "4">> >>
    /\ call.time = <<" ", "1", "0", ":", "0", "0">>
    /\ ret = PyStr(<<"2", "0", "2", "4", "-", "0", "3", "-", "0", "5">>)

(***************************************************************************)
(* Inputs of the amount parser                                             *)
(***************************************************************************)
\* amount strings of at most this many characters over AmountAlphabet
MaxAmountLen == 4

AmountAlphabet == {"0", "1", "5", ",", ".", " ", Dong, "x", "e", "-"}

RECURSIVE StringsOver(_, _)
StringsOver(alphabet, n) ==
    IF n = 0 THEN { <<>> }
    ELSE LET shorter == StringsOver(alphabet, n - 1)
         IN shorter \cup { Append(w, c) : w \in { v \in shorter : Len(v) = n - 1 }, c \in alphabet }

\* "1,234,567 d" with the currency marker, and other amounts as the sheet shows them
AmountExamples ==
    { <<"1", ",", "2", "3", "4", ",", "5", "6", "7", " ", Dong>>,
      <<"4", "0", ",", "0", "0", "0", " ", Dong>>,
      <<"1", ".", "0", "0", "0", Dong>> }

AmountArgs ==
    { PyNone, PyInt(0), PyInt(500), PyInt(-5), PyInt(1234567),
      PyFloat(0, 0), Norm(500, 0), Norm(125, -1), Norm(5, -1) }
      \cup { PyStr(w) : w \in StringsOver(AmountAlphabet, MaxAmountLen) \cup AmountExamples }

InitAmount ==
    /\ hoa_don = <<>>
    /\ khach_hang = <<>>
    /\ san_pham = <<>>
    /\ thong_ke = <<>>
    /\ call \in { [op |-> "_safe_parse_amount", arg |-> a] : a \in AmountArgs }
    /\ ret = Pending

SafeParseAmount ==
    /\ call.op = "_safe_parse_amount"
    /\ ret = Pending
    /\ ret' = _safe_parse_amount(call.arg)
    /\ UNCHANGED <<hoa_don, khach_hang, san_pham, thong_ke, call>>

NextAmount == SafeParseAmount

SpecAmount == InitAmount /\ [][NextAmount]_vars

AmountDone == call.op = "_safe_parse_amount" /\ ret # Pending

\* what remains of the input: stringified, trimmed, without the currency marker, ',' and '.'
Remainder(v) ==
    SelectSeq(Strip(StrOf(v)), LAMBDA c : c \notin {Dong, ",", "."})

IsIntegerValued(x) == x.t = "float" /\ x.e >= 0

\* C2: for every input (absent, number or string) _safe_parse_amount returns 0 for an
\* absent or empty input, and otherwise an integer-valued number: the one formed by the
\* digits that remain after trimming and removing the currency marker, ',' and '.', or 0;
\* "1,234,567 d" gives 1234567 and 500 gives 500.
C2_SafeParseAmount ==
    AmountDone =>
        /\ IsIntegerValued(ret)
        /\ ~Truthy(call.arg) => ret = PyFloat(0, 0)
        /\ (Truthy(call.arg) /\ IsDigits(Remainder(call.arg)))
              => ret = Norm(DigitsVal(Remainder(call.arg)), 0)
        /\ call.arg = PyInt(500) => ret = Norm(500, 0)
        /\ call.arg = PyStr(<<"1", ",", "2", "3", "4", ",", "5", "6", "7", " ", Dong>>)
              => ret = Norm(1234567, 0)

\* The part of C2 that the code satisfies: a remainder that is a plain run of digits
\* gives exactly that integer, an absent or empty input gives 0, and a remainder that
\* float() does not read gives 0.
AmountOfPlainRemainder ==
    AmountDone =>
        /\ ~Truthy(call.arg) => ret = PyFloat(0, 0)
        /\ (Truthy(call.arg) /\ IsDigits(Remainder(call.arg)))
              => ret = Norm(DigitsVal(Remainder(call.arg)), 0)
        /\ (Truthy(call.arg) /\ ~FloatParses(Remainder(call.arg))) => ret = PyFloat(0, 0)
        /\ call.arg = PyInt(500) => ret = Norm(500, 0)
        /\ call.arg = PyStr(<<"1", ",", "2", "3", "4", ",", "5", "6", "7", " ", Dong>>)
              => ret = Norm(1234567, 0)

(***************************************************************************)
(* Inputs of the record filter                                             *)
(***************************************************************************)
\* at most this many records in the list handed to the filter
MaxRecords == 2

\* a timestamp as save_invoice writes it (strftime '%d/%m/%Y'), and a range bound
Stamp(d, m, y) == PadNum(d, 2) \o <<"/">> \o PadNum(m, 2) \o <<"/">> \o PadNum(y, 4)
IsoDate(y, m, d) == PadNum(y, 4) \o <<"-">> \o PadNum(m, 2) \o <<"-">> \o PadNum(d, 2)
HHMM == <<" ", "1", "0", ":", "0", "0">>

FilterStamps ==
    { PyStr(Stamp(15, 1, 2024) \o HHMM), PyStr(Stamp(5, 2, 2024) \o HHMM),
      PyStr(Stamp(1, 1, 2024)), PyStr(Stamp(31, 1, 2024) \o HHMM),
      PyStr(Stamp(31, 12, 2023)), PyStr(<<"1", "/", "2", "/", "2", "0", "2", "4">>),
      PyStr(<<"0", "0", "5", "/", "0", "1", "/", "2", "0", "2", "4">>),
      PyStr(<<"x">>), PyStr(<<>>), PyInt(2024) }

FilterRecords == { [so_hd |-> id, ngay_gio |-> ts] : id \in {"HD1", "HD2"}, ts \in FilterStamps }

RECURSIVE SeqsUpTo(_, _)
SeqsUpTo(S, n) ==
    IF n = 0 THEN { <<>> }
    ELSE LET shorter == SeqsUpTo(S, n - 1)
         IN shorter \cup { Append(w, x) : w \in { v \in shorter : Len(v) = n - 1 }, x \in S }

DateFroms ==
    { PyNone, PyStr(<<>>), PyStr(IsoDate(2024, 1, 1)), PyStr(IsoDate(2024, 1, 15)),
      PyStr(IsoDate(2024, 2, 1)) }
DateTos ==
    { PyNone, PyStr(<<>>), PyStr(IsoDate(2024, 1, 31)), PyStr(IsoDate(2024, 1, 15)),
      PyStr(IsoDate(2023, 12, 31)) }

InitFilter ==
    /\ hoa_don = <<>>
    /\ khach_hang = <<>>
    /\ san_pham = <<>>
    /\ thong_ke = <<>>
    /\ call \in { [op |-> "_filter_invoices_by_date", invoice_data |-> recs,
                   date_from |-> f, date_to |-> t] :
                    recs \in SeqsUpTo(FilterRecords, MaxRecords), f \in DateFroms, t \in DateTos }
    /\ ret = Pending

FilterInvoicesByDate ==
    /\ call.op = "_filter_invoices_by_date"
    /\ ret = Pending
    /\ ret' = PyList(_filter_invoices_by_date(call.invoice_data, call.date_from, call.date_to))
    /\ UNCHANGED <<hoa_don, khach_hang, san_pham, thong_ke, call>>

NextFilter == FilterInvoicesByDate

SpecFilter == InitFilter /\ [][NextFilter]_vars

FilterDone == call.op = "_filter_invoices_by_date" /\ ret # Pending

\* a key of the canonical shape, ten characters NNNN-NN-NN
IsCanonicalKey(k) ==
    /\ Len(k) = 10
    /\ k[5] = "-" /\ k[8] = "-"
    /\ \A i \in {1, 2, 3, 4, 6, 7, 9, 10} : k[i] \in Digits

\* the day a canonical key names, as the number yyyymmdd
DayNumber(k) ==
    10000 * DigitsVal(SubSeq(k, 1, 4)) + 100 * DigitsVal(SubSeq(k, 6, 7))
        + DigitsVal(SubSeq(k, 9, 10))

\* the key is not after the other: by calendar day for canonical keys, by Python's
\* string order otherwise
KeyLeq(a, b) ==
    IF IsCanonicalKey(a) /\ IsCanonicalKey(b) THEN DayNumber(a) <= DayNumber(b)
    ELSE StrLeq(a, b)

\* the record's timestamp normalises to a key within [date_from, date_to]
InWindow(rec, date_from, date_to) ==
    LET d == _parse_invoice_date(rec.ngay_gio)
    IN d # PyNone /\ KeyLeq(date_from.s, d.s) /\ KeyLeq(d.s, date_to.s)

BothBounds == Truthy(call.date_from) /\ Truthy(call.date_to)

\* C3: with both bounds non-empty the filter returns, in their order, exactly the input
\* records whose timestamp normalises to a key d with date_from <= d <= date_to, both
\* bounds included; a record whose timestamp does not normalise is dropped. With the
\* range 2024-01-01..2024-01-31 a record dated 15/01/2024 is kept and one dated
\* 05/02/2024 is not.
C3_FilterKeepsWindow ==
    (FilterDone /\ BothBounds) =>
        /\ ret.items = SelectSeq(call.invoice_data,
                    LAMBDA rec : InWindow(rec, call.date_from, call.date_to))
        /\ \A i \in 1..Len(ret.items) : _parse_invoice_date(ret.items[i].ngay_gio) # PyNone
        /\ (call.date_from = PyStr(IsoDate(2024, 1, 1)) /\ call.date_to = PyStr(IsoDate(2024, 1, 31)))
              => \A i \in 1..Len(call.invoice_data) :
                    LET rec == call.invoice_data[i]
                    IN /\ rec.ngay_gio = PyStr(Stamp(15, 1, 2024) \o HHMM)
                          => \E j \in 1..Len(ret.items) : ret.items[j] = rec
                       /\ rec.ngay_gio = PyStr(Stamp(5, 2, 2024) \o HHMM)
                          => \A j \in 1..Len(ret.items) : ret.items[j] # rec

\* the range 2024-01-01..2024-01-31 keeps the record of 31/01/2024 (the upper bound) and
\* drops the one of 05/02/2024
C3_Witness ==
    /\ FilterDone
    /\ call.date_from = PyStr(IsoDate(2024, 1, 1))
    /\ call.date_to = PyStr(IsoDate(2024, 1, 31))
    /\ call.invoice_data = << [so_hd |-> "HD1", ngay_gio |-> PyStr(Stamp(31, 1, 2024) \o HHMM)],
                              [so_hd |-> "HD2", ngay_gio |-> PyStr(Stamp(5, 2, 2024) \o HHMM)] >>
    /\ ret = PyList(<< [so_hd |-> "HD1", ngay_gio |-> PyStr(Stamp(31, 1, 2024) \o HHMM)] >>)

\* C4: when date_from or date_to is absent or empty the filter returns the input list
\* unchanged: the same records in the same order, those whose timestamp cannot be
\* normalised included.
C4_FilterIdentity ==
    (FilterDone /\ ~BothBounds) => ret = PyList(call.invoice_data)

\* no lower bound, an upper bound, and a record whose timestamp does not parse: kept
C4_Witness ==
    /\ FilterDone
    /\ call.date_from = PyStr(<<>>)
    /\ call.date_to = PyStr(IsoDate(2024, 1, 31))
    /\ call.invoice_data = << [so_hd |-> "HD1", ngay_gio |-> PyStr(<<"x">>)],
                              [so_hd |-> "HD2", ngay_gio |-> PyStr(Stamp(5, 2, 2024) \o HHMM)] >>
    /\ ret = PyList(call.invoice_data)

(***************************************************************************)
(* The sheets the statistics read                                          *)
(***************************************************************************)
\* at most this many rows in HOA_DON
MaxInvoices == 2

Invoice(so_hd, ngay_gio, ma_kh, ten_khach, chi_tiet_sp, tong_thanh_toan, hinh_thuc_tt) ==
    [so_hd |-> so_hd, ngay_gio |-> ngay_gio, ma_kh |-> ma_kh, ten_khach |-> ten_khach,
     chi_tiet_sp |-> chi_tiet_sp, tong_thanh_toan |-> tong_thanh_toan,
     hinh_thuc_tt |-> hinh_thuc_tt]

Coffee == PyStr(<<"C", "o", "f", "f", "e", "e">>)
Tea == PyStr(<<"T", "e", "a">>)
Cake == PyStr(<<"C", "a", "k", "e">>)
Cash == PyStr(<<"c", "a", "s", "h">>)
Transfer == PyStr(<<"t", "r", "a", "n", "s", "f", "e", "r">>)
CodeA == PyStr(<<"A", "1">>)
CodeB == PyStr(<<"B", "1">>)
NameAn == PyStr(<<"A", "n">>)
NameBinh == PyStr(<<"B", "i", "n", "h">>)

\* [{"name": "Coffee", "quantity": 2, "total": 40000}]
CoffeeLine == LineItem(Coffee, PyInt(2), PyInt(40000))

\* a menu of one more product than the ranking returns: P1 .. P11, revenue 1000 * i
Menu ==
    [i \in 1..(TopProducts + 1) |->
        LineItem(PyStr(<<"P">> \o NatStr(i)), PyInt(1), PyInt(1000 * i))]

ProductCells ==
    { JsonText(PyList(<<CoffeeLine>>)),
      JsonText(PyList(<< LineItem(Tea, PyStr(<<"1">>), PyStr(<<"1", "5", ",", "0", "0", "0", " ", Dong>>)),
                         CoffeeLine >>)),
      JsonText(PyList(<<LineItem(Cake, PyInt(1), PyInt(60000))>>)),
      JsonText(PyList(<<LineItem(Tea, Absent, Absent)>>)),
      JsonText(PyList(Menu)),
      \* cells json.loads rejects: text that is not JSON, an empty cell, a numericised cell
      PyStr(<<"x">>), PyStr(<<>>), PyInt(5),
      \* JSON null: decodes, and cannot be iterated
      JsonText(PyNone),
      \* a line item that is no object after a good one; a quantity int() rejects first
      JsonText(PyList(<<LineItem(Tea, PyInt(1), PyInt(15000)), PyInt(7)>>)),
      JsonText(PyList(<<LineItem(Tea, PyStr(<<"x">>), PyInt(15000)), CoffeeLine>>)) }

March10 == PyStr(Stamp(10, 3, 2024) \o HHMM)
March12 == PyStr(Stamp(12, 3, 2024) \o HHMM)
April5 == PyStr(Stamp(5, 4, 2024) \o HHMM)
NoDate == PyStr(<<"x">>)

\* invoices of 10 March with every cell, and invoices of another month or of no
\* readable date with a cell of each kind
ProductInvoices ==
    { Invoice("HD", March10, CodeA, NameAn, c, PyInt(100000), Cash) : c \in ProductCells }
    \cup { Invoice("HD", d, CodeA, NameAn, c, PyInt(100000), Cash) :
            d \in {April5, NoDate},
            c \in {JsonText(PyList(<<CoffeeLine>>)), JsonText(PyList(Menu)), PyStr(<<"x">>)} }

\* (date_from, date_to) of a statistics request: none, or March 2024
StatRanges ==
    { <<PyNone, PyNone>>, <<PyStr(IsoDate(2024, 3, 1)), PyStr(IsoDate(2024, 3, 31))>> }

Idle == [op |-> "none"]

InitProducts ==
    /\ hoa_don \in SeqsUpTo(ProductInvoices, MaxInvoices)
    /\ khach_hang = <<>>
    /\ san_pham = <<>>
    /\ thong_ke = <<>>
    /\ call = Idle
    /\ ret = Pending

GetProductStats ==
    /\ \E r \in StatRanges, sheets_ok \in BOOLEAN :
        /\ call' = [op |-> "get_product_stats", date_from |-> r[1], date_to |-> r[2],
                    sheets_ok |-> sheets_ok]
        /\ ret' = get_product_stats(hoa_don, r[1], r[2], sheets_ok)
    /\ UNCHANGED <<hoa_don, khach_hang, san_pham, thong_ke>>

NextProducts == GetProductStats

SpecProducts == InitProducts /\ [][NextProducts]_vars

ProductsDone == call.op = "get_product_stats" /\ call.sheets_ok

\* the invoice is in the requested range (every invoice, when no range is requested)
InRange(invoice) ==
    (Truthy(call.date_from) /\ Truthy(call.date_to))
        => InWindow(invoice, call.date_from, call.date_to)

IsItemList(cell) == cell.t = "jsonstr" /\ cell.v.t = "list"

\* the cell holds a list of line items as the data model has them: objects whose
\* quantity is an integer (or a string int() reads), so that every one is processed
WellFormedLines(cell) ==
    /\ IsItemList(cell)
    /\ \A i \in 1..Len(cell.v.items) : ~LineItemRaises(cell.v.items[i])

RECURSIVE Flatten(_)
Flatten(lists) == IF lists = <<>> THEN <<>> ELSE lists[1] \o Flatten(Tail(lists))

\* the line items of the in-range invoices
InRangeLines ==
    LET lists == SelectSeq(hoa_don, LAMBDA invoice :
                    InRange(invoice) /\ IsItemList(invoice.chi_tiet_sp))
    IN Flatten([i \in 1..Len(lists) |-> lists[i].chi_tiet_sp.v.items])

NameOf(line) == Get(line, "name", PyStr(<<>>))

RECURSIVE IntSum(_)
IntSum(xs) == IF xs = <<>> THEN 0 ELSE xs[1] + IntSum(Tail(xs))

QuantitySold(lines, name) ==
    LET sold == SelectSeq(lines, LAMBDA line : NameOf(line) = name)
    IN IntSum([i \in 1..Len(sold) |-> PyIntOf(Get(sold[i], "quantity", PyInt(0)))])

RevenueSold(lines, name) ==
    LET sold == SelectSeq(lines, LAMBDA line : NameOf(line) = name)
    IN FSum([i \in 1..Len(sold) |-> _safe_parse_amount(Get(sold[i], "total", PyInt(0)))])

\* C8: get_product_stats accumulates, per product name, the sum of the quantities and the
\* sum of the parsed line totals over all line items of all in-range invoices, and returns
\* at most 10 entries, the 10 of highest revenue, ordered by revenue descending; two
\* invoices each selling Coffee, quantity 2, total 40000, give Coffee quantity 4 and
\* revenue 80000. (Line items are those of the data model: objects with an integer
\* quantity; an invoice whose cell does not decode to a list has none.)
C8_ProductRanking ==
    (/\ ProductsDone
     /\ \A i \in 1..Len(hoa_don) :
            (InRange(hoa_don[i]) /\ IsItemList(hoa_don[i].chi_tiet_sp))
                => WellFormedLines(hoa_don[i].chi_tiet_sp))
    => /\ ret.success
       /\ LET top == ret.data.items
              names == { NameOf(InRangeLines[i]) : i \in 1..Len(InRangeLines) }
          IN /\ Len(top) = Min(10, Cardinality(names))
             /\ \A i \in 1..Len(top) :
                    /\ top[i].name \in names
                    /\ top[i].quantity = QuantitySold(InRangeLines, top[i].name)
                    /\ top[i].revenue = RevenueSold(InRangeLines, top[i].name)
             /\ \A i, j \in 1..Len(top) : i < j =>
                    /\ top[i].name # top[j].name
                    /\ ~FLess(top[i].revenue, top[j].revenue)
             /\ \A n \in names : (\A i \in 1..Len(top) : top[i].name # n) =>
                    \A i \in 1..Len(top) : ~FLess(top[i].revenue, RevenueSold(InRangeLines, n))
       /\ (/\ Len(hoa_don) = 2
           /\ \A i \in 1..2 : /\ hoa_don[i].chi_tiet_sp = JsonText(PyList(<<CoffeeLine>>))
                              /\ InRange(hoa_don[i]))
          => ret.data.items = <<[name |-> Coffee, quantity |-> 4, revenue |-> Norm(80000, 0)]>>

\* two in-range invoices, Coffee with Tea and the eleven-product menu: ten entries come
\* back, the first the menu's dearest product, and Coffee and Tea are ranked with it
C8_Witness ==
    /\ ProductsDone
    /\ Truthy(call.date_from)
    /\ Len(hoa_don) = 2
    /\ hoa_don[1].ngay_gio = March10 /\ hoa_don[2].ngay_gio = March10
    /\ hoa_don[2].chi_tiet_sp = JsonText(PyList(Menu))
    /\ ret.success
    /\ Len(ret.data.items) = 10
    /\ ret.data.items[1] = [name |-> Coffee, quantity |-> 2, revenue |-> Norm(40000, 0)]
    /\ ret.data.items[2] = [name |-> Tea, quantity |-> 1, revenue |-> Norm(15000, 0)]
    /\ ret.data.items[3].name = PyStr(<<"P", "1", "1">>)

\* the cell's text is not JSON, or it is no text: json.loads raises
FailsToParse(invoice) == ~JsonLoads(invoice.chi_tiet_sp)

\* C9: in get_product_stats an invoice whose line-items field fails to parse contributes
\* nothing to any product's quantity or revenue; the aggregation continues with the other
\* invoices and returns a success result: the same one as without those invoices.
C9_UnparsableLinesSkipped ==
    ProductsDone =>
        /\ ret.success
        /\ ret = get_product_stats(SelectSeq(hoa_don, LAMBDA invoice : ~FailsToParse(invoice)),
                                   call.date_from, call.date_to, TRUE)
        /\ (\A i \in 1..Len(hoa_don) : InRange(hoa_don[i]) => FailsToParse(hoa_don[i]))
              => ret.data.items = <<>>

\* an in-range invoice whose cell is not JSON, then one selling Coffee: Coffee is counted
C9_Witness ==
    /\ ProductsDone
    /\ Len(hoa_don) = 2
    /\ hoa_don[1].ngay_gio = March10 /\ hoa_don[1].chi_tiet_sp = PyStr(<<"x">>)
    /\ hoa_don[2].ngay_gio = March10 /\ hoa_don[2].chi_tiet_sp = JsonText(PyList(<<CoffeeLine>>))
    /\ ret = Success(PyList(<<[name |-> Coffee, quantity |-> 2, revenue |-> Norm(40000, 0)]>>))

(***************************************************************************)
(* GoogleSheetsAPI.get_dashboard_stats                                     *)
(***************************************************************************)
\* the names the body of get_dashboard_stats assigns ahead of line 692 (its locals,
\* self and its parameters) and the names the module binds (its imports, the class
\* and test_connection): what a name read at line 692 can resolve to
DashboardLocals ==
    { "self", "date_from", "date_to", "debug_mode", "debug_info", "invoices", "customers",
      "products", "invoice_data", "customer_data", "product_data", "total_revenue",
      "total_invoices", "customer_names_in_period", "inv", "customer_name",
      "total_customers", "total_products", "cash_revenue", "transfer_revenue",
      "total_customer_spent", "avg_customer_spent" }
ModuleGlobals ==
    { "gspread", "Credentials", "json", "os", "xlsxwriter", "datetime", "pytz",
      "GoogleSheetsAPI", "test_connection" }
\* the builtins line 692 reads
Builtins == { "list", "len", "sum", "set" }

\* reading the name raises NameError
NameError(name) == name \notin DashboardLocals \cup ModuleGlobals \cup Builtins

\* float / int, written out when the quotient has at most three more decimal places
FDiv(a, n) ==
    IF (a.m * 1000) % n = 0 THEN Norm((a.m * 1000) \div n, a.e - 3)
    ELSE [t |-> "quotient", of |-> a, by |-> n]

\* sum of the parsed 'Tong Thanh Toan' of the invoices
Revenue(invoice_data) ==
    PySum(ParsedTotals(invoice_data))

\* inv.get('Ten Khach', '').strip() raises: the cell is no str (a numericised name)
StripRaises(inv) == Get(inv, "ten_khach", PyStr(<<>>)).t # "str"

\* the set built by the loop of lines 676-679: the stripped non-empty names
customer_names_in_period(invoice_data) ==
    { Strip(invoice_data[i].ten_khach.s) : i \in 1..Len(invoice_data) } \ { <<>> }

\* the 'data' of the result assembled at lines 695-708
DashboardData(invoice_data, product_data, date_from, date_to) ==
    LET total_revenue == Revenue(invoice_data)
        total_customers == Cardinality(customer_names_in_period(invoice_data))
    IN [t |-> "dict",
        total_revenue |-> total_revenue,
        total_invoices |-> Len(invoice_data),
        total_customers |-> total_customers,
        total_products |-> Len(product_data),
        cash_revenue |-> Revenue(SelectSeq(invoice_data, LAMBDA inv :
                            Get(inv, "hinh_thuc_tt", PyNone) = Cash)),
        transfer_revenue |-> Revenue(SelectSeq(invoice_data, LAMBDA inv :
                            Get(inv, "hinh_thuc_tt", PyNone) = Transfer)),
        total_customer_spent |-> total_revenue,
        avg_customer_spent |-> IF total_customers > 0
                               THEN FDiv(total_revenue, total_customers)
                               ELSE PyInt(0),
        date_range |-> [from |-> date_from, to |-> date_to]]

\* sheets_ok: the three reads (get_invoices, get_customers, get_products) succeed.
\* Every exception of the body is caught at line 714 and becomes a failure result.
get_dashboard_stats(invoices, product_data, date_from, date_to, sheets_ok) ==
    IF ~sheets_ok THEN Failure("Khong the lay du lieu tu Google Sheets")
    ELSE
      LET invoice_data == _filter_invoices_by_date(invoices, date_from, date_to)
      IN IF \E i \in 1..Len(invoice_data) : StripRaises(invoice_data[i])
         THEN Failure("'int' object has no attribute 'strip'")
         ELSE IF NameError("customer_codes_in_period")      \* line 692
         THEN Failure("name 'customer_codes_in_period' is not defined")
         ELSE Success(DashboardData(invoice_data, product_data, date_from, date_to))

NameAnPadded == PyStr(<<" ">> \o NameAn.s)

\* invoices of March in every pairing of two codes with two names, paid either way;
\* one of April; one without a name, one whose name carries a blank, one whose name
\* the sheet numericised
DashboardInvoices ==
    { Invoice("HD", d, c, n, JsonText(PyList(<<>>)), p[1], p[2]) :
        d \in {March10, March12}, c \in {CodeA, CodeB}, n \in {NameAn, NameBinh},
        p \in { <<PyInt(100000), Cash>>, <<PyInt(50000), Transfer>> } }
    \cup { Invoice("HD", April5, CodeA, NameAn, JsonText(PyList(<<>>)), PyInt(100000), Cash),
           Invoice("HD", March10, PyStr(<<>>), PyStr(<<>>), JsonText(PyList(<<>>)),
                   PyStr(<<"5", "0", ",", "0", "0", "0">>), Cash),
           Invoice("HD", March12, CodeB, NameAnPadded, JsonText(PyList(<<>>)),
                   PyInt(50000), Transfer),
           Invoice("HD", March10, CodeA, PyInt(7), JsonText(PyList(<<>>)),
                   PyInt(100000), Cash) }

\* the SAN_PHAM rows get_products returns: only their number is used
ProductSheets == { <<>>, <<[ten_san_pham |-> Coffee, don_gia |-> PyInt(20000)]>> }

InitDashboard ==
    /\ hoa_don \in SeqsUpTo(DashboardInvoices, MaxInvoices)
    /\ khach_hang = <<>>
    /\ san_pham \in ProductSheets
    /\ thong_ke = <<>>
    /\ call = Idle
    /\ ret = Pending

GetDashboardStats ==
    /\ \E r \in StatRanges, sheets_ok \in BOOLEAN :
        /\ call' = [op |-> "get_dashboard_stats", date_from |-> r[1], date_to |-> r[2],
                    sheets_ok |-> sheets_ok]
        /\ ret' = get_dashboard_stats(hoa_don, san_pham, r[1], r[2], sheets_ok)
    /\ UNCHANGED <<hoa_don, khach_hang, san_pham, thong_ke>>

NextDashboard == GetDashboardStats

SpecDashboard == InitDashboard /\ [][NextDashboard]_vars

DashboardDone == call.op = "get_dashboard_stats" /\ call.sheets_ok

\* the in-range invoices of the sheet, in their order
InRangeInvoices == SelectSeq(hoa_don, InRange)

PaidBy(method) == SelectSeq(InRangeInvoices, LAMBDA invoice : invoice.hinh_thuc_tt = method)

\* C5: for any invoice table and date range get_dashboard_stats returns a success
\* result whose total_revenue is the sum of the parsed totals of the in-range invoices,
\* total_invoices their count, cash_revenue / transfer_revenue the sums over those
\* paid by cash / transfer; 100000 (cash, 10/03/2024) and 50000 (transfer,
\* 12/03/2024) in March 2024 give 150000, 100000, 50000 and 2.
C5_DashboardTotals ==
    DashboardDone =>
        /\ ret.success
        /\ ret.data.total_revenue = PySum(ParsedTotals(InRangeInvoices))
        /\ ret.data.total_invoices = Len(InRangeInvoices)
        /\ ret.data.cash_revenue = PySum(ParsedTotals(PaidBy(Cash)))
        /\ ret.data.transfer_revenue = PySum(ParsedTotals(PaidBy(Transfer)))
        /\ (hoa_don = << Invoice("HD", March10, CodeA, NameAn, JsonText(PyList(<<>>)),
                                 PyInt(100000), Cash),
                         Invoice("HD", March12, CodeB, NameBinh, JsonText(PyList(<<>>)),
                                 PyInt(50000), Transfer) >>
            /\ Truthy(call.date_from))
              => /\ ret.data.total_revenue = Norm(150000, 0)
                 /\ ret.data.cash_revenue = Norm(100000, 0)
                 /\ ret.data.transfer_revenue = Norm(50000, 0)
                 /\ ret.data.total_invoices = 2

\* the distinct non-empty customer codes of the in-range invoices
CodesInRange ==
    { InRangeInvoices[i].ma_kh : i \in 1..Len(InRangeInvoices) } \ { PyStr(<<>>) }

\* the distinct customer count the dashboard reports
DistinctCustomers == ret.data.total_customers

\* C6: on an empty or entirely filtered-out invoice set get_dashboard_stats returns
\* total_revenue = 0 and avg_customer_spent = 0 and no division-by-zero failure; in
\* general avg_customer_spent is total_revenue divided by the distinct customer count,
\* or 0 when that count is 0.
C6_DashboardEmpty ==
    DashboardDone =>
        /\ ret.success
        /\ InRangeInvoices = <<>> =>
                ret.data.total_revenue = PyInt(0) /\ ret.data.avg_customer_spent = PyInt(0)
        /\ ret.data.avg_customer_spent =
                IF DistinctCustomers = 0 THEN PyInt(0)
                ELSE FDiv(ret.data.total_revenue, DistinctCustomers)

\* C7: the dashboard's distinct customer count is the number of distinct non-empty
\* customer codes among the in-range invoices: the same name under two codes counts
\* as two customers, one code under two names as one.
C7_DistinctCustomerCodes ==
    DashboardDone =>
        /\ ret.success
        /\ DistinctCustomers = Cardinality(CodesInRange)

(***************************************************************************)
(* GoogleSheetsAPI.get_customers and GoogleSheetsAPI.get_customer_stats    *)
(***************************************************************************)
\* the header row ensure_sheets_exist gives the KHACH_HANG sheet
CustomerHeaders ==
    << "ma_kh", "ten_khach_hang", "biet_danh", "so_dien_thoai", "bon_so_cuoi",
       "ngay_dang_ky", "tong_chi_tieu", "luot_choi", "nuoc", "ve_freeroll", "hyper",
       "turbo", "happy", "deep_stack", "highroller", "tong_diem", "doi", "con_lai" >>

\* a KHACH_HANG row as get_all_values returns it: every cell a str, as wide as the header
CustomerRow(code, name, total_spent) ==
    [i \in 1..Len(CustomerHeaders) |->
        CASE CustomerHeaders[i] = "ma_kh" -> code
          [] CustomerHeaders[i] = "ten_khach_hang" -> name
          [] CustomerHeaders[i] = "tong_chi_tieu" -> total_spent
          [] OTHER -> PyStr(<<>>)]

\* dict.get(key, default) of a dict built key by key
DictGet(d, key, default) == IF key \in DOMAIN d THEN d[key] ELSE default

\* the dict the inner loop of get_customers builds from one row: a header that occurs
\* twice keeps the later cell, a row shorter than the header reads ''
CustomerOf(headers, row) ==
    [header \in { headers[i] : i \in 1..Len(headers) } |->
        LET i == CHOOSE i \in 1..Len(headers) :
                    /\ headers[i] = header
                    /\ \A j \in 1..Len(headers) : headers[j] = header => j <= i
        IN IF i <= Len(row) THEN row[i] ELSE PyStr(<<>>)]

\* all_values: the rows of the sheet; sheet_ok: the read of KHACH_HANG succeeds
get_customers(all_values, sheet_ok) ==
    IF ~sheet_ok THEN Failure("worksheet")
    ELSE IF Len(all_values) <= 1 THEN Success(PyList(<<>>))
    ELSE LET headers == all_values[1]
             rows == SelectSeq(Tail(all_values), LAMBDA row : Truthy(row[1]))
         IN Success(PyList([i \in 1..Len(rows) |-> CustomerOf(headers, rows[i])]))

\* the entry with the total read from the cached 'Tong Chi Tieu' cell: a slip that
\* reports the cached field in place of the sum over the invoices
CustomerEntryCached(customer, invoice_data) ==
    LET customer_code == DictGet(customer, "ma_kh", PyStr(<<>>))
        customer_invoices == SelectSeq(invoice_data, LAMBDA inv :
                                Get(inv, "ma_kh", PyNone) = customer_code)
    IN [code |-> customer_code,
        name |-> DictGet(customer, "ten_khach_hang", PyStr(<<>>)),
        total_spent |-> _safe_parse_amount(DictGet(customer, "tong_chi_tieu", PyInt(0))),
        invoice_count |-> Len(customer_invoices)]

\* the entry get_customer_stats makes for one customer, before the test of its count
CustomerEntry(customer, invoice_data) ==
    LET customer_code == DictGet(customer, "ma_kh", PyStr(<<>>))
        customer_invoices == SelectSeq(invoice_data, LAMBDA inv :
                                Get(inv, "ma_kh", PyNone) = customer_code)
    IN [code |-> customer_code,
        name |-> DictGet(customer, "ten_khach_hang", PyStr(<<>>)),
        total_spent |-> PySum(ParsedTotals(customer_invoices)),
        invoice_count |-> Len(customer_invoices)]

\* sheets_ok: the reads of KHACH_HANG and HOA_DON succeed
get_customer_stats(all_values, invoices, date_from, date_to, sheets_ok) ==
    LET customers == get_customers(all_values, sheets_ok)
    IN IF ~customers.success \/ ~sheets_ok THEN Failure("Khong the lay du lieu")
       ELSE
         LET invoice_data == _filter_invoices_by_date(invoices, date_from, date_to)
             customer_stats ==
                SelectSeq([i \in 1..Len(customers.data.items) |->
                                CustomerEntry(customers.data.items[i], invoice_data)],
                          LAMBDA entry : entry.invoice_count > 0)
         IN Success(PyList(SortDesc(customer_stats, "total_spent")))

\* at most this many customer rows under the header
MaxCustomers == 2

\* a code made of digits: create_customer derives it from a name and a phone number
\* of digits; KHACH_HANG shows it as text, HOA_DON numericised
CodeDigits == <<"1", "5">>

CachedTotal == PyStr(<<"1", "0", "0", ",", "0", "0", "0", " ", Dong>>)

\* customer rows: two customers (one with a cached total), one whose code is made of
\* digits, and an empty row
CustomerRows ==
    { CustomerRow(CodeA, NameAn, CachedTotal),
      CustomerRow(CodeB, NameBinh, PyStr(<<"0">>)),
      CustomerRow(PyStr(CodeDigits), NameAn, PyStr(<<"0">>)),
      CustomerRow(PyStr(<<>>), PyStr(<<>>), PyStr(<<>>)) }

\* the KHACH_HANG sheet: empty, or the header and the customer rows
CustomerSheets ==
    { <<>> } \cup { <<CustomerHeaders>> \o rows : rows \in SeqsUpTo(CustomerRows, MaxCustomers) }

\* invoices of 10 March for each code (the digit code as get_all_records returns it),
\* one without a code, and invoices of April and of no readable date
CustomerInvoices ==
    { Invoice("HD", March10, c, NameAn, JsonText(PyList(<<>>)), PyInt(100000), Cash) :
        c \in {CodeA, CodeB, PyInt(IntOf(CodeDigits)), PyStr(<<>>)} }
    \cup { Invoice("HD", March10, CodeA, NameAn, JsonText(PyList(<<>>)), PyInt(50000), Transfer),
           Invoice("HD", April5, CodeA, NameAn, JsonText(PyList(<<>>)), PyInt(100000), Cash),
           Invoice("HD", NoDate, CodeB, NameBinh, JsonText(PyList(<<>>)), PyInt(50000), Cash) }

InitCustomers ==
    /\ hoa_don \in SeqsUpTo(CustomerInvoices, MaxInvoices)
    /\ khach_hang \in CustomerSheets
    /\ san_pham = <<>>
    /\ thong_ke = <<>>
    /\ call = Idle
    /\ ret = Pending

GetCustomerStats ==
    /\ \E r \in StatRanges, sheets_ok \in BOOLEAN :
        /\ call' = [op |-> "get_customer_stats", date_from |-> r[1], date_to |-> r[2],
                    sheets_ok |-> sheets_ok]
        /\ ret' = get_customer_stats(khach_hang, hoa_don, r[1], r[2], sheets_ok)
    /\ UNCHANGED <<hoa_don, khach_hang, san_pham, thong_ke>>

NextCustomers == GetCustomerStats

SpecCustomers == InitCustomers /\ [][NextCustomers]_vars

CustomersDone == call.op = "get_customer_stats" /\ call.sheets_ok

\* the customer records of the sheet: the rows under the header that carry a code
CustomerRecords ==
    IF khach_hang = <<>> THEN <<>>
    ELSE SelectSeq(Tail(khach_hang), LAMBDA row : row[1] # PyStr(<<>>))

\* the text the sheet shows in a cell
CellText(cell) == StrOf(cell)

\* the in-range invoices that carry the customer's code
InvoicesOf(row) ==
    SelectSeq(InRangeInvoices, LAMBDA invoice : CellText(invoice.ma_kh) = row[1].s)

\* the entry the ranking owes a customer record
RankingEntry(row) ==
    [code |-> row[1], name |-> row[2],
     total_spent |-> PySum(ParsedTotals(InvoicesOf(row))),
     invoice_count |-> Len(InvoicesOf(row))]

\* the ranking lists, highest total first, one entry for each customer record with an
\* in-range invoice of its code, and nothing else
CustomerRankingHolds ==
    /\ ret.success
    /\ LET stats == ret.data.items
           records == SelectSeq(CustomerRecords, LAMBDA row : InvoicesOf(row) # <<>>)
           owed == [i \in 1..Len(records) |-> RankingEntry(records[i])]
       IN /\ Len(stats) = Len(owed)
          /\ \A i \in 1..Len(owed) :
                Cardinality({ j \in 1..Len(stats) : stats[j] = owed[i] })
                    = Cardinality({ j \in 1..Len(owed) : owed[j] = owed[i] })
          /\ \A i, j \in 1..Len(stats) :
                i < j => ~FLess(stats[i].total_spent, stats[j].total_spent)

\* C10: get_customer_stats returns one entry per customer record that has at least one
\* in-range invoice with a matching customer code, its total_spent the sum of those
\* invoices' parsed totals, sorted by total_spent descending; a customer with no
\* in-range invoice is not in the result even when its cached total is not zero.
C10_CustomerRanking == CustomersDone => CustomerRankingHolds

\* the ranking is as C10 says whenever no in-range invoice carries a numericised code
CustomerRankingOfTextCodes ==
    (/\ CustomersDone
     /\ \A i \in 1..Len(InRangeInvoices) : InRangeInvoices[i].ma_kh.t = "str")
        => CustomerRankingHolds

(***************************************************************************)
(* The statistics functions over one store                                 *)
(***************************************************************************)
\* get_dashboard_stats with its read of KHACH_HANG spelled out (lines 648-653): the
\* customer rows are read, and used for nothing but the success of the read
DashboardOfStore(all_values, invoices, product_data, date_from, date_to, sheets_ok) ==
    IF ~get_customers(all_values, sheets_ok).success
    THEN Failure("Khong the lay du lieu tu Google Sheets")
    ELSE get_dashboard_stats(invoices, product_data, date_from, date_to, sheets_ok)

\* KHACH_HANG sheets: empty, header only, two customers, a digit code and an empty row
StatsSheets ==
    { <<>>,
      <<CustomerHeaders>>,
      <<CustomerHeaders, CustomerRow(CodeA, NameAn, CachedTotal),
        CustomerRow(CodeB, NameBinh, PyStr(<<"0">>))>>,
      <<CustomerHeaders, CustomerRow(PyStr(CodeDigits), NameAn, PyStr(<<"0">>)),
        CustomerRow(PyStr(<<>>), PyStr(<<>>), PyStr(<<>>))>> }

\* the invoices of the customer statistics, one that sells Coffee and one whose
\* line-items cell is not JSON
StatsInvoices ==
    CustomerInvoices
    \cup { Invoice("HD", March12, CodeB, NameBinh, JsonText(PyList(<<CoffeeLine>>)),
                   PyInt(50000), Transfer),
           Invoice("HD", March10, CodeA, NameAn, PyStr(<<"x">>), PyInt(100000), Cash) }

InitStats ==
    /\ hoa_don \in SeqsUpTo(StatsInvoices, MaxInvoices)
    /\ khach_hang \in StatsSheets
    /\ san_pham \in ProductSheets
    /\ thong_ke = <<>>
    /\ call = Idle
    /\ ret = Pending

DashboardStatsOfStore ==
    /\ \E r \in StatRanges, sheets_ok \in BOOLEAN :
        /\ call' = [op |-> "get_dashboard_stats", date_from |-> r[1], date_to |-> r[2],
                    sheets_ok |-> sheets_ok]
        /\ ret' = DashboardOfStore(khach_hang, hoa_don, san_pham, r[1], r[2], sheets_ok)
    /\ UNCHANGED <<hoa_don, khach_hang, san_pham, thong_ke>>

NextStats == DashboardStatsOfStore \/ GetCustomerStats

SpecStats == InitStats /\ [][NextStats]_vars

\* the values a cached 'Tong Chi Tieu' cell is given in the other store
CachedTotals == { PyStr(<<"0">>), CachedTotal, PyStr(<<"5">>) }

\* the store with the cached totals of its customer rows replaced by totals[1], ...
WithCachedTotals(all_values, totals) ==
    [i \in 1..Len(all_values) |->
        IF i = 1 THEN all_values[i]
        ELSE [j \in 1..Len(all_values[i]) |->
                IF CustomerHeaders[j] = "tong_chi_tieu" THEN totals[i - 1]
                ELSE all_values[i][j]]]

\* the stores that differ from KHACH_HANG in nothing but cached totals
OtherStores ==
    IF khach_hang = <<>> THEN { khach_hang }
    ELSE { WithCachedTotals(khach_hang, totals) :
            totals \in [1..(Len(khach_hang) - 1) -> CachedTotals] }

\* C11: the dashboard and customer statistics do not depend on the cached
\* total_spent: over a store that differs only in the customers' cached totals,
\* get_dashboard_stats and get_customer_stats return the same result for every range.
C11_StatsIgnoreCachedTotal ==
    \A other \in OtherStores :
        /\ call.op = "get_dashboard_stats"
              => ret = DashboardOfStore(other, hoa_don, san_pham, call.date_from,
                                        call.date_to, call.sheets_ok)
        /\ call.op = "get_customer_stats"
              => ret = get_customer_stats(other, hoa_don, call.date_from, call.date_to,
                                          call.sheets_ok)

\* customer A1, cached total 100,000, has two in-range invoices: it is ranked with
\* 150000, and a store with another cached total exists
C11_Witness ==
    /\ call.op = "get_customer_stats"
    /\ ret.success
    /\ Len(ret.data.items) = 1
    /\ ret.data.items[1].code = CodeA
    /\ ret.data.items[1].total_spent = Norm(150000, 0)
    /\ khach_hang[2][7] = CachedTotal
    /\ \E other \in OtherStores : other # khach_hang

(***************************************************************************)
(* GoogleSheetsAPI.get_revenue_stats                                       *)
(***************************************************************************)
\* 'Tuan', whose third character is the one character U+1EA7
Tuan == <<"T", "u", "a^", "n">>

\* the key the loop of lines 821-847 files an invoice under, None when it passes the
\* invoice over: at the continue of line 824 or at the one of line 847, which catches
\* whatever the body raises
RevenueKey(invoice, period) ==
    LET date_str == Get(invoice, "ngay_gio", PyStr(<<>>))
    IN IF ~Truthy(date_str) THEN PyNone
       ELSE IF date_str.t # "str" THEN PyNone           \* an int has no split
       ELSE
         LET date_part == Split(date_str.s, " ")[1]
             parts == Split(date_part, "/")
         IN IF Len(parts) # 3 THEN PyNone                \* the unpacking raises
            ELSE
              LET day == parts[1]
                  month == parts[2]
                  year == parts[3]
              IN CASE period = "day" -> PyStr(day \o <<"/">> \o month \o <<"/">> \o year)
                   [] period = "week" ->
                        IF ~IntParses(day) THEN PyNone  \* int(day) raises
                        ELSE PyStr(Tuan \o <<" ">> \o IntStr((IntOf(day) - 1) \div 7 + 1)
                                     \o <<"/">> \o month \o <<"/">> \o year)
                   [] period = "month" -> PyStr(month \o <<"/">> \o year)
                   [] OTHER -> PyNone                    \* key is not bound

\* revenue_by_period.items() after the loop: one (period, revenue) per key, in the
\* order the keys first occur, the revenue the parsed totals of the invoices of the
\* key added in their order
RevenueByPeriod(invoice_data, period) ==
    LET key(i) == RevenueKey(invoice_data[i], period)
        first == { i \in 1..Len(invoice_data) :
                     key(i) # PyNone /\ \A j \in 1..(i - 1) : key(j) # key(i) }
        entry(i) ==
            [period |-> key(i).s,
             revenue |-> FSum(ParsedTotals(SelectSeq(invoice_data,
                             LAMBDA invoice : RevenueKey(invoice, period) = key(i))))]
    IN [k \in 1..Cardinality(first) |->
            entry(CHOOSE i \in first : Cardinality({ j \in first : j < i }) = k - 1)]

\* revenue_data left as the dict gives it: a slip that omits the sort of line 851
UnsortedByPeriod(revenue_data) == revenue_data

\* revenue_data.sort(key=lambda x: x['period']); the periods are distinct
SortByPeriod(revenue_data) ==
    LET ahead(i) == Cardinality({ j \in 1..Len(revenue_data) :
                        StrLess(revenue_data[j].period, revenue_data[i].period) })
    IN [k \in 1..Len(revenue_data) |->
            revenue_data[CHOOSE i \in 1..Len(revenue_data) : ahead(i) = k - 1]]

\* get_revenue_stats without the test of line 811: a slip that reports a failed read
\* of HOA_DON as a period without invoices
RevenueStatsOfFailedRead(invoices, period, date_from, date_to, sheets_ok) ==
    LET invoice_data ==
            IF sheets_ok THEN _filter_invoices_by_date(invoices, date_from, date_to)
            ELSE <<>>
    IN Success(PyList(SortByPeriod(RevenueByPeriod(invoice_data, period))))

\* sheets_ok: the read of HOA_DON in get_invoices succeeds
get_revenue_stats(invoices, period, date_from, date_to, sheets_ok) ==
    IF ~sheets_ok THEN Failure("Khong the lay du lieu hoa don")
    ELSE
      LET invoice_data == _filter_invoices_by_date(invoices, date_from, date_to)
      IN Success(PyList(SortByPeriod(RevenueByPeriod(invoice_data, period))))

(***************************************************************************)
(* Revenue requests over HOA_DON sheets of up to MaxInvoices rows          *)
(***************************************************************************)
\* 'Ngay Gio' cells: days on both sides of the week boundaries of March 2024, other
\* months and years, a date without a time, and cells no invoice was saved with
RevenueStamps ==
    { PyStr(Stamp(1, 3, 2024) \o HHMM), PyStr(Stamp(7, 3, 2024) \o HHMM),
      PyStr(Stamp(8, 3, 2024) \o HHMM), March10, April5,
      PyStr(Stamp(5, 4, 2023) \o HHMM), PyStr(Stamp(10, 3, 2024)),
      \* day and month not padded; a day no month has; a leading blank
      PyStr(<<"5", "/", "4", "/", "2", "0", "2", "4">> \o HHMM),
      PyStr(<<"4", "5", "/", "0", "3", "/", "2", "0", "2", "4">> \o HHMM),
      PyStr(<<" ">> \o March10.s),
      \* no date at all: text, an empty cell, a numericised cell
      NoDate, PyStr(<<>>), PyInt(20240310) }

RevenueInvoices ==
    { Invoice("HD", d, CodeA, NameAn, JsonText(PyList(<<CoffeeLine>>)), PyInt(100000), Cash) :
        d \in RevenueStamps }
    \cup { Invoice("HD", d, CodeB, NameBinh, JsonText(PyList(<<CoffeeLine>>)),
                   PyStr(<<"1", "5", ",", "0", "0", "0", " ", Dong>>), Transfer) :
            d \in {March10, April5} }

\* the period selector: the three granularities and one that is none of them
RevenuePeriods == { "day", "week", "month", "year" }

InitRevenue ==
    /\ hoa_don \in SeqsUpTo(RevenueInvoices, MaxInvoices)
    /\ khach_hang = <<>>
    /\ san_pham = <<>>
    /\ thong_ke = <<>>
    /\ call = Idle
    /\ ret = Pending

GetRevenueStats ==
    /\ \E period \in RevenuePeriods, r \in StatRanges, sheets_ok \in BOOLEAN :
        /\ call' = [op |-> "get_revenue_stats", period |-> period, date_from |-> r[1],
                    date_to |-> r[2], sheets_ok |-> sheets_ok]
        /\ ret' = get_revenue_stats(hoa_don, period, r[1], r[2], sheets_ok)
    /\ UNCHANGED <<hoa_don, khach_hang, san_pham, thong_ke>>

NextRevenue == GetRevenueStats

SpecRevenue == InitRevenue /\ [][NextRevenue]_vars

RevenueDone ==
    /\ call.op = "get_revenue_stats"
    /\ call.sheets_ok
    /\ call.period \in {"day", "week", "month"}

\* the positions in HOA_DON of the in-range invoices whose date the normaliser parses
DatedInRange ==
    { i \in 1..Len(hoa_don) :
        InRange(hoa_don[i]) /\ _parse_invoice_date(hoa_don[i].ngay_gio) # PyNone }

\* the bucket of a date YYYY-MM-DD: the date, the week of the month with month and
\* year, or month and year
BucketOf(iso, period) ==
    LET year == SubSeq(iso, 1, 4)
        month == SubSeq(iso, 6, 7)
        day == DigitsVal(SubSeq(iso, 9, 10))
    IN CASE period = "day" -> <<iso>>
         [] period = "week" -> <<(day - 1) \div 7 + 1, month, year>>
         [] period = "month" -> <<month, year>>

BucketAt(i) == BucketOf(_parse_invoice_date(hoa_don[i].ngay_gio).s, call.period)

\* the in-range invoices of one bucket, in the order of the sheet
BucketInvoices(bucket) ==
    SelectSeq(hoa_don, LAMBDA invoice :
        /\ InRange(invoice)
        /\ _parse_invoice_date(invoice.ngay_gio) # PyNone
        /\ BucketOf(_parse_invoice_date(invoice.ngay_gio).s, call.period) = bucket)

\* C12: get_revenue_stats puts each in-range invoice with a parsable date into exactly
\* one bucket, the exact date for 'day', floor((day-1)/7)+1 with month and year for
\* 'week', month and year for 'month'; the revenue of a bucket is the sum of the parsed
\* totals of its invoices; invoices with unparsable dates are skipped. So the entries
\* of the result match the buckets of the dated in-range invoices one to one, each
\* entry carrying the sum of its bucket.
C12_RevenueBuckets ==
    RevenueDone =>
        /\ ret.success
        /\ LET buckets == { BucketAt(i) : i \in DatedInRange }
               items == ret.data.items
           IN /\ Len(items) = Cardinality(buckets)
              /\ \E f \in [1..Len(items) -> buckets] :
                    /\ \A j, k \in 1..Len(items) : f[j] = f[k] => j = k
                    /\ \A j \in 1..Len(items) :
                          items[j].revenue = FSum(ParsedTotals(BucketInvoices(f[j])))

\* a cell as save_invoice writes it, DD/MM/YYYY HH:MM with its time or without, or a
\* cell the bucketing and the normaliser both pass over
PlainStamp(cell) ==
    \/ ~Truthy(cell)
    \/ cell.t # "str"
    \/ Len(Split(cell.s, "/")) # 3
    \/ /\ cell.s[1] # " "
       /\ _parse_invoice_date(cell) # PyNone
       /\ Len(Split(Split(cell.s, " ")[1], "/")[1]) = 2
       /\ Len(Split(Split(cell.s, " ")[1], "/")[2]) = 2

\* over sheets of such cells the entries do match the buckets one to one
RevenueBucketsOfPlainStamps ==
    (\A i \in 1..Len(hoa_don) : PlainStamp(hoa_don[i].ngay_gio)) => C12_RevenueBuckets

\* the keys the loop files the in-range invoices under
RevenueKeys ==
    { RevenueKey(hoa_don[i], call.period).s :
        i \in { k \in 1..Len(hoa_don) :
                  InRange(hoa_don[k]) /\ RevenueKey(hoa_don[k], call.period) # PyNone } }

\* C13: the result of get_revenue_stats has exactly one entry per distinct bucket key
\* and is sorted by bucket key in ascending string order: the periods of its entries
\* are the keys of the bucketed invoices, and each entry's period is less than the
\* next one's.
C13_RevenueSorted ==
    RevenueDone =>
        /\ ret.success
        /\ LET items == ret.data.items
           IN /\ { items[j].period : j \in 1..Len(items) } = RevenueKeys
              /\ \A j, k \in 1..Len(items) :
                    j < k => StrLess(items[j].period, items[k].period)

\* two invoices in two buckets, the later bucket first in the sheet: the entry of the
\* second invoice comes first in the result
C13_Witness ==
    /\ RevenueDone
    /\ Len(hoa_don) = 2
    /\ Len(ret.data.items) = 2
    /\ ret.data.items[1].period = RevenueKey(hoa_don[2], call.period).s
    /\ ret.data.items[2].period = RevenueKey(hoa_don[1], call.period).s

(***************************************************************************)
(* The KHACH_HANG worksheet as the writing methods use it                  *)
(*                                                                         *)
(* A cell holds text: what get_all_values returns. A number written to a   *)
(* cell reads back as its decimal text. get_all_records returns the rows   *)
(* under the header as dicts keyed by the header cells, with the cells     *)
(* int() reads turned into ints; the cells used here hold no other numeric *)
(* literal (no '.', no exponent).                                          *)
(***************************************************************************)
\* the header of a sheet made before the extended fields, the order create_customer,
\* update_customer and add_customer write their rows in
LegacyHeaders ==
    << "ma_kh", "ten_khach_hang", "so_dien_thoai", "bon_so_cuoi", "ngay_dang_ky",
       "tong_chi_tieu" >>

\* new_columns of update_sheet_structure
NewColumns ==
    << "biet_danh", "luot_choi", "nuoc", "ve_freeroll", "hyper", "turbo", "happy",
       "deep_stack", "highroller", "tong_diem", "doi", "con_lai" >>

\* the text a written value is read back as
CellOf(v) == IF v.t = "none" THEN PyStr(<<>>) ELSE PyStr(StrOf(v))

\* gspread's numericise of one cell
Numericise(cell) == IF IntParses(cell.s) THEN PyInt(IntOf(cell.s)) ELSE cell

\* one dict of get_all_records: a row shorter than the header reads ''
RecordOf(headers, row) ==
    [header \in { headers[i] : i \in 1..Len(headers) } |->
        Numericise(CustomerOf(headers, row)[header])]

\* worksheet.get_all_records(): the rows under the header row
get_all_records(all_values) ==
    [i \in 1..(Len(all_values) - 1) |-> RecordOf(all_values[1], all_values[i + 1])]

\* worksheet.update_cell(row, col, value): a row shorter than col is widened with ''
UpdateCell(all_values, row, col, value) ==
    [all_values EXCEPT ![row] =
        [j \in 1..(IF Len(@) < col THEN col ELSE Len(@)) |->
            IF j = col THEN CellOf(value)
            ELSE IF j <= Len(@) THEN @[j] ELSE PyStr(<<>>)]]

\* str.replace(' d-', ''): the occurrences of the blank followed by the currency
\* marker removed (two different characters, so occurrences do not overlap)
RemoveMarker(s) ==
    LET kept == { i \in 1..Len(s) :
                    /\ ~(s[i] = " " /\ i < Len(s) /\ s[i + 1] = Dong)
                    /\ ~(s[i] = Dong /\ i > 1 /\ s[i - 1] = " ") }
    IN [k \in 1..Cardinality(kept) |->
            s[CHOOSE i \in kept : Cardinality({ j \in kept : j < i }) = k - 1]]

\* f"{n:,}" of an int: the digits in groups of three
RECURSIVE GroupNat(_)
GroupNat(n) ==
    IF n < 1000 THEN NatStr(n) ELSE GroupNat(n \div 1000) \o <<",">> \o PadNum(n % 1000, 3)
Grouped(n) == IF n < 0 THEN <<"-">> \o GroupNat(-n) ELSE GroupNat(n)

(***************************************************************************)
(* GoogleSheetsAPI.update_customer_spent                                   *)
(*                                                                         *)
(* phone is a str or an int, amount an int or a str (the JSON values of    *)
(* invoice['customerPhone'] and invoice['total']).                         *)
(***************************************************************************)
\* the position in records of the first record whose phone matches, 0 when the loop
\* runs to its else
MatchingRecord(records, phone) ==
    LET search_phone_str == Remove(StrOf(phone), " ")
        customer_phone_str(i) ==
            LET customer_phone == DictGet(records[i], "so_dien_thoai", PyNone)
            IN IF Truthy(customer_phone)
               THEN Remove(Remove(StrOf(customer_phone), " "), "'")
               ELSE <<>>
        matches == { i \in 1..Len(records) : customer_phone_str(i) = search_phone_str }
    IN IF matches = {} THEN 0 ELSE CHOOSE i \in matches : \A j \in matches : i <= j

\* new_spent of lines 599-610
NewSpent(record, amount) ==
    LET cell == DictGet(record, "tong_chi_tieu", PyInt(0))
        current_spent ==
            IF cell.t = "str"
            THEN LET text == Remove(RemoveMarker(cell.s), ",")
                 IN IF IsDigit(text) THEN DigitsVal(text) ELSE 0
            ELSE cell.n
        added ==
            IF amount.t = "str"
            THEN (IF IsDigit(amount.s) THEN DigitsVal(amount.s) ELSE 0)
            ELSE amount.n
    IN current_spent + added

\* update_customer_spent with the else of its loop writing to the first customer row:
\* a slip that charges an unknown phone to somebody
UpdateSpentOfFirstRow(all_values, phone, amount, sheet_ok) ==
    IF ~sheet_ok \/ Len(all_values) < 2 THEN all_values
    ELSE
      LET records == get_all_records(all_values)
          i == IF MatchingRecord(records, phone) = 0 THEN 1
               ELSE MatchingRecord(records, phone)
      IN UpdateCell(all_values, i + 1, 6,
                    PyStr(Grouped(NewSpent(records[i], amount)) \o <<" ", Dong>>))

\* the sheet after update_customer_spent; sheet_ok: the read of KHACH_HANG succeeds
\* (a failure is caught at line 617 and nothing is written)
update_customer_spent(all_values, phone, amount, sheet_ok) ==
    IF ~sheet_ok \/ all_values = <<>> THEN all_values
    ELSE
      LET records == get_all_records(all_values)
          i == MatchingRecord(records, phone)
      IN IF i = 0 THEN all_values
         ELSE UpdateCell(all_values, i + 1, 6,
                         PyStr(Grouped(NewSpent(records[i], amount)) \o <<" ", Dong>>))

(***************************************************************************)
(* GoogleSheetsAPI.save_invoice and GoogleSheetsAPI.update_stats           *)
(***************************************************************************)
\* a result that carries a message: {'success': True, 'message': ...}
Done(message) == [t |-> "dict", success |-> TRUE, message |-> message]

\* the invoice of a request, with the keys save_invoice reads that reach a column read
\* again: invoiceId, customerCode, customerName, customerPhone, products, total,
\* paymentMethod
InvoiceRequest(customerCode, customerName, customerPhone, total, paymentMethod) ==
    [invoiceId |-> "HD", customerCode |-> customerCode, customerName |-> customerName,
     customerPhone |-> customerPhone, products |-> PyList(<<CoffeeLine>>),
     total |-> total, paymentMethod |-> paymentMethod]

\* the row of lines 555-567 as get_all_records reads it back; now: the clock's
\* strftime('%d/%m/%Y %H:%M')
AppendedInvoice(invoice, now) ==
    Invoice(invoice.invoiceId, PyStr(now), Numericise(CellOf(invoice.customerCode)),
            Numericise(CellOf(invoice.customerName)), JsonText(invoice.products),
            Numericise(CellOf(invoice.total)), Numericise(CellOf(invoice.paymentMethod)))

\* the row update_stats appends to THONG_KE
StatsRow(invoice, now) ==
    LET total == CellOf(invoice.total)
    IN << PyStr(Split(now, " ")[1]), invoice.invoiceId, total,
          IF invoice.paymentMethod = Cash THEN total ELSE PyStr(<<"0">>),
          IF invoice.paymentMethod = Transfer THEN total ELSE PyStr(<<"0">>) >>

(***************************************************************************)
(* Invoices saved against KHACH_HANG sheets of both layouts                *)
(***************************************************************************)
\* a customer row that follows its header
TableRow(headers, code, name, phone, total_spent) ==
    [i \in 1..Len(headers) |->
        CASE headers[i] = "ma_kh" -> code
          [] headers[i] = "ten_khach_hang" -> name
          [] headers[i] = "so_dien_thoai" -> phone
          [] headers[i] = "tong_chi_tieu" -> total_spent
          [] OTHER -> PyStr(<<>>)]

PhoneAn == <<"0", "9", "1", "2", "3", "4">>
PhoneBinh == <<"0", "9", "2", "2", "3", "4">>
PhoneNobody == <<"0", "0", "0", "0", "0", "0">>
\* the phone cell of create_customer: the number after a quote
Quoted(phone) == PyStr(<<"'">> \o phone)

Layouts == { LegacyHeaders, CustomerHeaders }

\* 'Tong Chi Tieu' cells: the 0 of a new customer, a total as update_customer_spent
\* writes it, text that is no amount, an empty cell
SpentCells == { PyStr(<<"0">>), CachedTotal, PyStr(<<"x">>), PyStr(<<>>) }

\* sheets of one or two customers: An, whose phone is stored plain or with blanks, then
\* nobody, Binh, or a second row with An's phone
LedgerRows(headers) ==
    { <<TableRow(headers, CodeA, NameAn, phone, total_spent)>> \o more :
        phone \in { Quoted(PhoneAn), Quoted(<<"0", "9", " ", "1", "2", "3", "4">>) },
        total_spent \in SpentCells,
        more \in { <<>>,
                   <<TableRow(headers, CodeB, NameBinh, Quoted(PhoneBinh), PyStr(<<"0">>))>>,
                   <<TableRow(headers, CodeB, NameBinh, Quoted(PhoneAn),
                              PyStr(<<"5", ",", "0", "0", "0", " ", Dong>>))>> } }

LedgerSheets ==
    { <<>> } \cup { <<headers>> : headers \in Layouts }
    \cup UNION { { <<headers>> \o rows : rows \in LedgerRows(headers) } :
                    headers \in Layouts }

\* requests: An's phone plain and with a blank, a phone of nobody; the total an int, a
\* str of digits, a str that is no number
LedgerRequests ==
    { InvoiceRequest(CodeA, NameAn, phone, total, Cash) :
        phone \in { PyStr(PhoneAn), PyStr(<<"0", "9", "1", " ", "2", "3", "4">>),
                    PyStr(PhoneNobody) },
        total \in { PyInt(50000), PyStr(<<"5", "0", "0", "0">>), PyStr(<<"x">>) } }

\* the clock of the server
Clock == { March10.s }

InitLedger ==
    /\ hoa_don = <<>>
    /\ khach_hang \in LedgerSheets
    /\ san_pham = <<>>
    /\ thong_ke = <<>>
    /\ call = Idle
    /\ ret = Pending

\* which of the requests of one call to HOA_DON, KHACH_HANG and THONG_KE succeed: all,
\* or all but one
SheetFaults ==
    { [hd_ok |-> TRUE, kh_ok |-> TRUE, tk_ok |-> TRUE],
      [hd_ok |-> FALSE, kh_ok |-> TRUE, tk_ok |-> TRUE],
      [hd_ok |-> TRUE, kh_ok |-> FALSE, tk_ok |-> TRUE],
      [hd_ok |-> TRUE, kh_ok |-> TRUE, tk_ok |-> FALSE] }

\* an append that lands on the last row of a sheet that has rows: a slip that edits a
\* stored row in place
AppendRowOverLast(all_values, row) ==
    IF all_values = <<>> THEN <<row>> ELSE [all_values EXCEPT ![Len(all_values)] = row]

\* worksheet.append_row(row) of save_invoice and update_stats: the row goes under the
\* last row of the sheet
append_row(all_values, row) == Append(all_values, row)

\* save_invoice: the three sheets afterwards and the result; ok: which of the requests
\* to HOA_DON, KHACH_HANG and THONG_KE succeed
save_invoice(invoices, customers, stats, invoice, now, ok) ==
    IF ~ok.hd_ok
    THEN [hoa_don |-> invoices, khach_hang |-> customers, thong_ke |-> stats,
          result |-> Failure("worksheet")]
    ELSE [hoa_don |-> append_row(invoices, AppendedInvoice(invoice, now)),
          khach_hang |-> update_customer_spent(customers, invoice.customerPhone,
                                               invoice.total, ok.kh_ok),
          thong_ke |-> IF ok.tk_ok THEN append_row(stats, StatsRow(invoice, now))
                       ELSE stats,
          result |-> Done("Da luu hoa don")]

SaveInvoiceOf(requests) ==
    /\ Len(hoa_don) < MaxInvoices
    /\ \E invoice \in requests, now \in Clock, ok \in SheetFaults :
        /\ call' = [op |-> "save_invoice", invoice |-> invoice, now |-> now,
                    hd_ok |-> ok.hd_ok, kh_ok |-> ok.kh_ok, tk_ok |-> ok.tk_ok]
        /\ hoa_don' = save_invoice(hoa_don, khach_hang, thong_ke, invoice, now, ok).hoa_don
        /\ khach_hang' = save_invoice(hoa_don, khach_hang, thong_ke, invoice, now,
                                      ok).khach_hang
        /\ thong_ke' = save_invoice(hoa_don, khach_hang, thong_ke, invoice, now, ok).thong_ke
        /\ ret' = save_invoice(hoa_don, khach_hang, thong_ke, invoice, now, ok).result
    /\ UNCHANGED san_pham

SaveLedgerInvoice == SaveInvoiceOf(LedgerRequests)

NextLedger == SaveLedgerInvoice

SpecLedger == InitLedger /\ [][NextLedger]_vars

\* the cell of a customer row under a header
FieldOf(all_values, row, header) == CustomerOf(all_values[1], all_values[row])[header]

\* the sheet row of the first customer whose stored phone, quote and blanks removed,
\* is the phone with its blanks removed; 0 when there is none
FoundRow(all_values, phone) ==
    LET found == { r \in 2..Len(all_values) :
                     Remove(Remove(FieldOf(all_values, r, "so_dien_thoai").s, "'"), " ")
                        = Remove(StrOf(phone), " ") }
    IN IF found = {} THEN 0 ELSE CHOOSE r \in found : \A q \in found : r <= q

\* a cached total parsed: marker, blanks and grouping commas removed, 0 when what is
\* left is no number
SpentOf(cell) ==
    LET text == Remove(Remove(Remove(cell.s, Dong), ","), " ")
    IN IF IsDigits(text) THEN DigitsVal(text) ELSE 0

\* the amount of a payment: a str of digits read as an int, any other str 0
PaidOf(amount) ==
    IF amount.t = "str" THEN (IF IsDigits(amount.s) THEN DigitsVal(amount.s) ELSE 0)
    ELSE amount.n

\* a total in thousands groups with the currency suffix
SpentText(n) == PyStr(Grouped(n) \o <<" ", Dong>>)

\* save_invoice reached update_customer_spent, whose read succeeded and found a customer
SpentUpdated ==
    /\ call'.op = "save_invoice"
    /\ call'.hd_ok
    /\ call'.kh_ok
    /\ FoundRow(khach_hang, call'.invoice.customerPhone) # 0

SpentAsClaimed ==
    LET r == FoundRow(khach_hang, call'.invoice.customerPhone)
    IN FieldOf(khach_hang', r, "tong_chi_tieu")
         = SpentText(SpentOf(FieldOf(khach_hang, r, "tong_chi_tieu"))
                        + PaidOf(call'.invoice.total))

\* C14: when update_customer_spent finds a customer whose stored phone (quote and
\* blanks removed) is the phone with its blanks removed, the customer's cached
\* total_spent afterwards is the parsed previous cached total plus the amount,
\* written with thousands separators and the currency suffix.
C14_SpentUpdated == [][SpentUpdated => SpentAsClaimed]_vars

\* the same over the sheets whose header has 'Tong Chi Tieu' as its sixth column
SpentUpdatedInSixthColumn ==
    [][(SpentUpdated /\ khach_hang[1][6] = "tong_chi_tieu") => SpentAsClaimed]_vars

\* C15: when no customer's normalized phone equals the normalized input phone,
\* update_customer_spent performs no write: every row of the customer table is
\* unchanged, and no exception reaches the caller (save_invoice goes on to its
\* success result).
C15_NoMatchNoWrite ==
    [][(/\ call'.op = "save_invoice"
        /\ call'.hd_ok
        /\ FoundRow(khach_hang, call'.invoice.customerPhone) = 0)
            => (khach_hang' = khach_hang /\ ret' = Done("Da luu hoa don"))]_vars

\* an invoice for a phone of nobody was saved against a sheet of two customers, the
\* sheet was read, and the invoice is in HOA_DON
C15_Witness ==
    /\ call.op = "save_invoice"
    /\ call.hd_ok /\ call.kh_ok
    /\ call.invoice.customerPhone = PyStr(PhoneNobody)
    /\ Len(khach_hang) = 3
    /\ FoundRow(khach_hang, call.invoice.customerPhone) = 0
    /\ Len(hoa_don) = 1
    /\ ret.success

(***************************************************************************)
(* Two requests POST /api/invoices served at once                          *)
(*                                                                         *)
(* handle_invoices calls save_invoice on the one GoogleSheetsAPI object,   *)
(* with no lock, so the worksheet requests of two calls interleave. Each   *)
(* call goes through append (line 568), read (585), write (612) when a     *)
(* record matched, stats (638). The locals of call p that outlive a step,  *)
(* i and new_spent, are kept in call.i[p] and call.new_spent[p].           *)
(***************************************************************************)
Calls == 1..2

\* the total taken from the sheet again at the time of the write: what an update
\* under a lock would store
StoredSpentReread(all_values, i, new_spent, amount) ==
    SpentText(NewSpent(get_all_records(all_values)[i], amount))

\* the text line 612 stores: the total computed from the records read at line 585
StoredSpent(all_values, i, new_spent, amount) == SpentText(new_spent)

\* one customer, An, with 100,000 spent, under either header
RaceSheets ==
    { <<headers, TableRow(headers, CodeA, NameAn, Quoted(PhoneAn), CachedTotal)>> :
        headers \in Layouts }

\* invoices for An (the phone plain or with a blank) or for nobody
RaceRequests ==
    { InvoiceRequest(CodeA, NameAn, phone, total, Cash) :
        phone \in { PyStr(PhoneAn), PyStr(<<"0", "9", "1", " ", "2", "3", "4">>),
                    PyStr(PhoneNobody) },
        total \in { PyInt(50000), PyInt(20000), PyStr(<<"5", "0", "0", "0">>) } }

InitRace ==
    /\ hoa_don = <<>>
    /\ khach_hang \in RaceSheets
    /\ san_pham = <<>>
    /\ thong_ke = <<>>
    /\ \E first, second \in RaceRequests :
            call = [op |-> "handle_invoices", invoice |-> <<first, second>>,
                    now |-> March10.s, pc |-> <<"append", "append">>,
                    i |-> <<0, 0>>, new_spent |-> <<0, 0>>]
    /\ ret = <<Pending, Pending>>

\* line 568
RaceAppend(p) ==
    /\ call.pc[p] = "append"
    /\ hoa_don' = Append(hoa_don, AppendedInvoice(call.invoice[p], call.now))
    /\ call' = [call EXCEPT !.pc[p] = "read"]
    /\ UNCHANGED <<khach_hang, san_pham, thong_ke, ret>>

\* lines 585-610: the records are read and new_spent is computed from them
RaceRead(p) ==
    /\ call.pc[p] = "read"
    /\ LET records == get_all_records(khach_hang)
           i == MatchingRecord(records, call.invoice[p].customerPhone)
       IN call' = [call EXCEPT
                      !.pc[p] = IF i = 0 THEN "stats" ELSE "write",
                      !.i[p] = i,
                      !.new_spent[p] =
                          IF i = 0 THEN 0 ELSE NewSpent(records[i], call.invoice[p].total)]
    /\ UNCHANGED <<hoa_don, khach_hang, san_pham, thong_ke, ret>>

\* line 612
RaceWrite(p) ==
    /\ call.pc[p] = "write"
    /\ khach_hang' = UpdateCell(khach_hang, call.i[p] + 1, 6,
                                StoredSpent(khach_hang, call.i[p], call.new_spent[p],
                                            call.invoice[p].total))
    /\ call' = [call EXCEPT !.pc[p] = "stats"]
    /\ UNCHANGED <<hoa_don, san_pham, thong_ke, ret>>

\* lines 574-576: update_stats, and the result
RaceStats(p) ==
    /\ call.pc[p] = "stats"
    /\ thong_ke' = Append(thong_ke, StatsRow(call.invoice[p], call.now))
    /\ call' = [call EXCEPT !.pc[p] = "done"]
    /\ ret' = [ret EXCEPT ![p] = Done("Da luu hoa don")]
    /\ UNCHANGED <<hoa_don, khach_hang, san_pham>>

NextRace ==
    \E p \in Calls : RaceAppend(p) \/ RaceRead(p) \/ RaceWrite(p) \/ RaceStats(p)

SpecRace == InitRace /\ [][NextRace]_vars

\* both calls have returned, and both had found the customer
BothCharged ==
    /\ \A p \in Calls : call.pc[p] = "done" /\ ret[p].success
    /\ \A p \in Calls : call.i[p] = 1

\* C16: two save_invoice calls for the same customer that interleave can lose an
\* update, the last write wins: once both calls have completed, the cell they wrote
\* holds the total one of them computed from what it had read, and so, when both read
\* the cached total before either wrote, the old total plus only one of the amounts.
C16_LastWriteWins ==
    BothCharged =>
        \E p \in Calls : khach_hang[2][6] = SpentText(call.new_spent[p])

\* both calls read 100,000 before either wrote, both have completed, and the cached
\* total is 100,000 plus the amount of the second call only
C16_Witness ==
    /\ BothCharged
    /\ khach_hang[1] = LegacyHeaders
    /\ call.invoice[1].total = PyInt(50000)
    /\ call.invoice[2].total = PyInt(20000)
    /\ call.new_spent = <<150000, 120000>>
    /\ FieldOf(khach_hang, 2, "tong_chi_tieu") = SpentText(120000)
    /\ Len(hoa_don) = 2

(***************************************************************************)
(* The four aggregation functions over one store                           *)
(***************************************************************************)
\* invoices of every kind the four functions treat apart: two customers and payment
\* methods, a date out of the range and one that is none, line items that are JSON and
\* that are not, a name and a date the sheet numericised, an amount in text
AggregateInvoices ==
    { Invoice("HD", March10, CodeA, NameAn, JsonText(PyList(<<CoffeeLine>>)), PyInt(100000), Cash),
      Invoice("HD", March12, CodeB, NameBinh, JsonText(PyList(<<CoffeeLine>>)), PyInt(50000), Transfer),
      Invoice("HD", April5, CodeA, NameAn, PyStr(<<"x">>), PyInt(100000), Cash),
      Invoice("HD", NoDate, CodeB, NameBinh, JsonText(PyNone), PyInt(50000), Cash),
      Invoice("HD", March10, CodeA, PyInt(7), PyInt(5), PyInt(100000), Cash),
      Invoice("HD", PyInt(20240310), PyInt(IntOf(CodeDigits)), NameAn,
              JsonText(PyList(<<LineItem(Tea, PyStr(<<"x">>), PyInt(15000)), CoffeeLine>>)),
              PyStr(<<"1", "5", ",", "0", "0", "0", " ", Dong>>), Transfer),
      Invoice("HD", PyStr(<<>>), PyStr(<<>>), PyStr(<<>>), PyStr(<<>>), PyStr(<<"x">>), Cash) }

InitAggregate ==
    /\ hoa_don \in SeqsUpTo(AggregateInvoices, MaxInvoices)
    /\ khach_hang \in StatsSheets
    /\ san_pham \in ProductSheets
    /\ thong_ke = <<>>
    /\ call = Idle
    /\ ret = Pending

NextAggregate ==
    DashboardStatsOfStore \/ GetProductStats \/ GetCustomerStats \/ GetRevenueStats

SpecAggregate == InitAggregate /\ [][NextAggregate]_vars

\* a result tagged success with a data payload, or tagged failure with a message string
Tagged(result) ==
    /\ result.t = "dict"
    /\ result.success \in BOOLEAN
    /\ result.success => DOMAIN result = {"t", "success", "data"}
    /\ ~result.success => (DOMAIN result = {"t", "success", "message"}
                            /\ result.message \in STRING)

\* C17: each of the four aggregation functions never raises to its caller, for any
\* store content and any arguments: it returns a result tagged success with a data
\* payload or tagged failure with a message string, and a failing row-store read
\* yields the failure-tagged result.
C17_AggregationsReturn ==
    call.op \in {"get_dashboard_stats", "get_product_stats", "get_customer_stats",
                 "get_revenue_stats"}
        => /\ Tagged(ret)
           /\ ~call.sheets_ok => ~ret.success

\* the read fails under get_revenue_stats over a sheet with invoices: a failure result
C17_Witness ==
    /\ call.op = "get_revenue_stats"
    /\ ~call.sheets_ok
    /\ Len(hoa_don) = 2
    /\ ~ret.success
    /\ ret.message # ""

(***************************************************************************)
(* GoogleSheetsAPI.create_customer, update_customer, add_customer,         *)
(* delete_customer and update_sheet_structure                              *)
(*                                                                         *)
(* customer_data is the dict of the request body: a function from the      *)
(* names of the fields it has to str values.  A given 'Ngay Dang Ky' is    *)
(* kept as it is: the import of line 226 makes datetime a local of         *)
(* create_customer, so the strptime of line 232 raises and line 234 passes.*)
(***************************************************************************)
\* phone[-4:] if len(phone) >= 4 else phone
Last4(phone) == IF Len(phone) >= 4 THEN SubSeq(phone, Len(phone) - 3, Len(phone)) ELSE phone

\* customer_code of line 220
CustomerCode(all_values, customer_data) ==
    LET name == Strip(DictGet(customer_data, "ten_khach_hang", PyStr(<<>>)).s)
        phone == Strip(DictGet(customer_data, "so_dien_thoai", PyStr(<<>>)).s)
        name_clean == Remove(name, " ")
    IN IF name_clean # <<>> /\ phone # <<>>
       THEN SubSeq(name_clean, 1, Min(4, Len(name_clean))) \o Last4(phone)
       ELSE <<"K", "H">> \o Zfill(NatStr(Len(get_all_records(all_values)) + 1), 4)

\* row_data of create_customer and of update_customer: the code, the name, the quoted
\* phone, its last four, the date, the total, then the extended fields
RowData(customer_code, name, phone, registration_date, total_spent, customer_data) ==
    << PyStr(customer_code), CellOf(name),
       IF phone # <<>> THEN Quoted(phone) ELSE PyStr(<<>>),
       PyStr(Last4(phone)), CellOf(registration_date), CellOf(total_spent) >>
    \o [k \in 1..Len(NewColumns) |->
            CellOf(DictGet(customer_data, NewColumns[k], PyStr(<<>>)))]

\* {'success': True, 'message': ..., 'customer_code': customer_code}
Created(customer_code) ==
    [t |-> "dict", success |-> TRUE, message |-> "Tao khach hang thanh cong",
     customer_code |-> PyStr(customer_code)]

\* create_customer: the sheet afterwards and the result; today: the clock's
\* strftime('%d/%m/%Y'); sheet_ok: the requests to KHACH_HANG succeed
create_customer(all_values, customer_data, today, sheet_ok) ==
    IF ~sheet_ok THEN [sheet |-> all_values, result |-> Failure("worksheet")]
    ELSE
      LET name == Strip(DictGet(customer_data, "ten_khach_hang", PyStr(<<>>)).s)
          phone == Strip(DictGet(customer_data, "so_dien_thoai", PyStr(<<>>)).s)
          customer_code == CustomerCode(all_values, customer_data)
          given == DictGet(customer_data, "ngay_dang_ky", PyStr(<<>>))
          registration_date == IF Truthy(given) THEN given ELSE PyStr(today)
      IN [sheet |-> Append(all_values,
                           RowData(customer_code, PyStr(name), phone, registration_date,
                                   PyInt(0), customer_data)),
          result |-> Created(customer_code)]

\* worksheet.update('A{row}:R{row}', [row_data]): the cells past R are kept
UpdateRange(all_values, row, row_data) ==
    [all_values EXCEPT ![row] =
        [j \in 1..(IF Len(@) < Len(row_data) THEN Len(row_data) ELSE Len(@)) |->
            IF j <= Len(row_data) THEN row_data[j] ELSE @[j]]]

\* the sheet row update_customer finds, 0 for none; get_all_values pads every row to
\* the width of the widest, so a row without cells reads as one with an empty code
RowOfCode(all_values, customer_code) ==
    LET padded == \E q \in 1..Len(all_values) : Len(all_values[q]) > 0
        code(r) == IF Len(all_values[r]) > 0 THEN all_values[r][1] ELSE PyStr(<<>>)
        found == { r \in 2..Len(all_values) : padded /\ code(r) = customer_code }
    IN IF found = {} THEN 0 ELSE CHOOSE r \in found : \A q \in found : r <= q

\* update_customer with the code of its row taken from the request body when it has
\* one: a slip that lets an update rename a customer
UpdateCustomerRecoding(all_values, customer_code, customer_data, sheet_ok) ==
    IF ~sheet_ok THEN [sheet |-> all_values, result |-> Failure("worksheet")]
    ELSE IF Len(all_values) < 2
    THEN [sheet |-> all_values, result |-> Failure("Khong co du lieu khach hang")]
    ELSE IF RowOfCode(all_values, customer_code) = 0
    THEN [sheet |-> all_values, result |-> Failure("Khong tim thay khach hang")]
    ELSE
      LET given == DictGet(customer_data, "so_dien_thoai", PyStr(<<>>))
          phone == IF Truthy(given) THEN Remove(given.s, "'") ELSE <<>>
      IN [sheet |-> UpdateRange(all_values, RowOfCode(all_values, customer_code),
                        RowData(DictGet(customer_data, "ma_kh", customer_code).s,
                                DictGet(customer_data, "ten_khach_hang", PyStr(<<>>)),
                                phone,
                                DictGet(customer_data, "ngay_dang_ky", PyStr(<<>>)),
                                DictGet(customer_data, "tong_chi_tieu", PyInt(0)),
                                customer_data)),
          result |-> Done("Cap nhat khach hang thanh cong")]

\* update_customer: the sheet afterwards and the result; customer_code is a str
update_customer(all_values, customer_code, customer_data, sheet_ok) ==
    IF ~sheet_ok THEN [sheet |-> all_values, result |-> Failure("worksheet")]
    ELSE IF Len(all_values) < 2
    THEN [sheet |-> all_values, result |-> Failure("Khong co du lieu khach hang")]
    ELSE IF RowOfCode(all_values, customer_code) = 0
    THEN [sheet |-> all_values, result |-> Failure("Khong tim thay khach hang")]
    ELSE
      LET given == DictGet(customer_data, "so_dien_thoai", PyStr(<<>>))
          phone == IF Truthy(given) THEN Remove(given.s, "'") ELSE <<>>
      IN [sheet |-> UpdateRange(all_values, RowOfCode(all_values, customer_code),
                        RowData(customer_code.s,
                                DictGet(customer_data, "ten_khach_hang", PyStr(<<>>)),
                                phone,
                                DictGet(customer_data, "ngay_dang_ky", PyStr(<<>>)),
                                DictGet(customer_data, "tong_chi_tieu", PyInt(0)),
                                customer_data)),
          result |-> Done("Cap nhat khach hang thanh cong")]

\* the phone of add_customer's comparison: blanks, '-', '(' and ')' removed
PlainPhone(s) == Remove(Remove(Remove(Remove(s, " "), "-"), "("), ")")

\* add_customer: customer has the keys code, name, phone, last4
add_customer(all_values, customer, today, sheet_ok) ==
    IF ~sheet_ok THEN [sheet |-> all_values, result |-> Failure("worksheet")]
    ELSE
      LET records == get_all_records(all_values)
          customer_phone == PlainPhone(customer.phone.s)
          existing_phone(i) ==
              PlainPhone(Remove(StrOf(DictGet(records[i], "so_dien_thoai", PyStr(<<>>))), "'"))
      IN IF \E i \in 1..Len(records) : existing_phone(i) = customer_phone
         THEN [sheet |-> all_values, result |-> Failure("So dien thoai da ton tai")]
         ELSE [sheet |-> Append(all_values,
                                << customer.code, customer.name, Quoted(customer.phone.s),
                                   customer.last4, PyStr(today), PyStr(<<"0">>) >>),
               result |-> Done("Da them khach hang")]

\* delete_customer, the definition of line 517, which replaces the one of line 324
delete_customer(all_values, code, sheet_ok) ==
    IF ~sheet_ok THEN [sheet |-> all_values, result |-> Failure("worksheet")]
    ELSE
      LET records == get_all_records(all_values)
          found == { i \in 1..Len(records) : DictGet(records[i], "ma_kh", PyNone) = code }
      IN IF found = {}
         THEN [sheet |-> all_values, result |-> Failure("Khong tim thay khach hang")]
         ELSE LET i == CHOOSE i \in found : \A j \in found : i <= j
              IN [sheet |-> [r \in 1..(Len(all_values) - 1) |->
                                IF r < i + 1 THEN all_values[r] ELSE all_values[r + 1]],
                  result |-> Done("Da xoa khach hang")]

\* the rows of the grid of the worksheet (1000 in ensure_sheets_exist), scaled down
GridRows == 3

\* update_sheet_structure: the columns of new_columns the header lacks are added after
\* the last header cell, and filled with their default in every row of the grid under
\* the header: '' for 'Biet Danh', 0 for the others
update_sheet_structure(all_values, sheet_ok) ==
    IF ~sheet_ok THEN [sheet |-> all_values, result |-> Failure("worksheet")]
    ELSE
      LET headers == IF all_values = <<>> THEN <<>> ELSE all_values[1]
          missing_columns == SelectSeq(NewColumns, LAMBDA name :
                                \A i \in 1..Len(headers) : headers[i] # name)
          current_col_count == Len(headers)
          num_rows == IF Len(all_values) < GridRows THEN GridRows ELSE Len(all_values)
          old(r) == IF r <= Len(all_values) THEN all_values[r] ELSE <<>>
          width(r) == IF Len(old(r)) < current_col_count + Len(missing_columns)
                      THEN current_col_count + Len(missing_columns) ELSE Len(old(r))
          filled(r) ==
              [j \in 1..width(r) |->
                  IF j > current_col_count /\ j <= current_col_count + Len(missing_columns)
                  THEN (IF missing_columns[j - current_col_count] = "biet_danh"
                        THEN PyStr(<<>>) ELSE PyStr(<<"0">>))
                  ELSE IF j <= Len(old(r)) THEN old(r)[j] ELSE PyStr(<<>>)]
      IN IF missing_columns = <<>>
         THEN [sheet |-> all_values,
               result |-> [t |-> "dict", success |-> TRUE,
                           message |-> "Tat ca cot da co san", added_columns |-> <<>>]]
         ELSE [sheet |-> [r \in 1..num_rows |->
                            IF r = 1 THEN headers \o missing_columns ELSE filled(r)],
               result |-> [t |-> "dict", success |-> TRUE,
                           message |-> "Da them cot moi", added_columns |-> missing_columns,
                           total_columns |-> current_col_count + Len(missing_columns)]]


(***************************************************************************)
(* The customer table under creations, updates, invoices and statistics    *)
(***************************************************************************)
\* datetime.now().strftime('%d/%m/%Y') of the clock of the server
Today == Stamp(10, 3, 2024)

\* bodies of POST /api/customers: An with a phone, and without one
CreateBodies ==
    { [ten_khach_hang |-> NameAn, so_dien_thoai |-> PyStr(PhoneAn)],
      [ten_khach_hang |-> NameAn] }

CodeAn == PyStr(<<"A", "n", "1", "2", "3", "4">>)

\* bodies of PUT /api/customers/<customer_code>: a new name and phone under a code of
\* the body's own; the record as a client shows it, with a nickname and a total
UpdateBodies ==
    { [ma_kh |-> CodeB, ten_khach_hang |-> NameBinh, so_dien_thoai |-> PyStr(PhoneBinh)],
      [ten_khach_hang |-> NameAn, so_dien_thoai |-> Quoted(PhoneAn),
       biet_danh |-> PyStr(<<"A">>), tong_chi_tieu |-> CachedTotal] }

\* the codes of the URL: of An as created, and of nobody
UpdateCodes == { CodeAn, CodeB }

\* the customer of POST /api/customers handled by add_customer
AddedCustomers ==
    { [code |-> CodeA, name |-> NameAn, phone |-> PyStr(PhoneAn),
       last4 |-> PyStr(Last4(PhoneAn))] }

\* an invoice of An's phone
TableRequests == { InvoiceRequest(CodeAn, NameAn, PyStr(PhoneAn), PyInt(50000), Cash) }

InitTable ==
    /\ hoa_don = <<>>
    /\ khach_hang \in { <<headers>> : headers \in Layouts }
    /\ san_pham = <<>>
    /\ thong_ke = <<>>
    /\ call = Idle
    /\ ret = Pending

CreateCustomerOf(bodies) ==
    /\ Len(CustomerRecords) < MaxCustomers
    /\ \E customer_data \in bodies, sheet_ok \in BOOLEAN :
        /\ call' = [op |-> "create_customer", customer_data |-> customer_data,
                    sheet_ok |-> sheet_ok]
        /\ khach_hang' = create_customer(khach_hang, customer_data, Today, sheet_ok).sheet
        /\ ret' = create_customer(khach_hang, customer_data, Today, sheet_ok).result
    /\ UNCHANGED <<hoa_don, san_pham, thong_ke>>

CreateCustomer == CreateCustomerOf(CreateBodies)

AddCustomerOf(customers) ==
    /\ Len(CustomerRecords) < MaxCustomers
    /\ \E customer \in customers, sheet_ok \in BOOLEAN :
        /\ call' = [op |-> "add_customer", customer |-> customer, sheet_ok |-> sheet_ok]
        /\ khach_hang' = add_customer(khach_hang, customer, Today, sheet_ok).sheet
        /\ ret' = add_customer(khach_hang, customer, Today, sheet_ok).result
    /\ UNCHANGED <<hoa_don, san_pham, thong_ke>>

AddCustomer == AddCustomerOf(AddedCustomers)

UpdateCustomerOf(codes, bodies) ==
    /\ \E customer_code \in codes, customer_data \in bodies, sheet_ok \in BOOLEAN :
        /\ call' = [op |-> "update_customer", customer_code |-> customer_code,
                    customer_data |-> customer_data, sheet_ok |-> sheet_ok]
        /\ khach_hang' = update_customer(khach_hang, customer_code, customer_data,
                                         sheet_ok).sheet
        /\ ret' = update_customer(khach_hang, customer_code, customer_data, sheet_ok).result
    /\ UNCHANGED <<hoa_don, san_pham, thong_ke>>

UpdateCustomer == UpdateCustomerOf(UpdateCodes, UpdateBodies)

UpdateSheetStructure ==
    /\ \E sheet_ok \in BOOLEAN :
        /\ call' = [op |-> "update_sheet_structure", sheet_ok |-> sheet_ok]
        /\ khach_hang' = update_sheet_structure(khach_hang, sheet_ok).sheet
        /\ ret' = update_sheet_structure(khach_hang, sheet_ok).result
    /\ UNCHANGED <<hoa_don, san_pham, thong_ke>>

SaveTableInvoice == SaveInvoiceOf(TableRequests)

\* GET /api/stats/customers without a range
CustomerStatsOfTable ==
    /\ \E sheets_ok \in BOOLEAN :
        /\ call' = [op |-> "get_customer_stats", date_from |-> PyNone, date_to |-> PyNone,
                    sheets_ok |-> sheets_ok]
        /\ ret' = get_customer_stats(khach_hang, hoa_don, PyNone, PyNone, sheets_ok)
    /\ UNCHANGED <<hoa_don, khach_hang, san_pham, thong_ke>>

NextTable ==
    \/ CreateCustomer
    \/ AddCustomer
    \/ UpdateCustomer
    \/ UpdateSheetStructure
    \/ SaveTableInvoice
    \/ CustomerStatsOfTable

SpecTable == InitTable /\ [][NextTable]_vars

\* every customer row of the sheet before the step is there after it with the same
\* 'Tong Chi Tieu'
TotalsKept ==
    \A r \in 2..Len(khach_hang) :
        /\ r <= Len(khach_hang')
        /\ FieldOf(khach_hang', r, "tong_chi_tieu") = FieldOf(khach_hang, r, "tong_chi_tieu")

\* C18: every operation other than save_invoice (update_customer, add_customer,
\* update_sheet_structure, the statistics) leaves the cached total_spent of every
\* existing customer unchanged
C18_TotalsKeptOutsideSaveInvoice == [][call'.op # "save_invoice" => TotalsKept]_vars

\* what holds of the code: the operations other than save_invoice and update_customer
\* leave the cached totals alone
TotalsKeptOutsideSaveAndUpdate ==
    [][call'.op \notin {"save_invoice", "update_customer"} => TotalsKept]_vars

\* every customer row of the sheet before the step is there after it with the same code
CodesKept ==
    \A r \in 2..Len(khach_hang) :
        /\ r <= Len(khach_hang')
        /\ FieldOf(khach_hang', r, "ma_kh") = FieldOf(khach_hang, r, "ma_kh")

\* C19: across update_customer, save_invoice and the statistics (and the creations and
\* update_sheet_structure) the code stored in an existing customer row stays the code
\* the row was created with
C19_CodeNeverChanges == [][CodesKept]_vars

\* update_customer has given An's row the name and the phone of Binh, whose derived code
\* would be another, and the row still has the code it was created with
C19_Witness ==
    /\ call.op = "update_customer"
    /\ call.customer_code = CodeAn
    /\ ret.success
    /\ \E r \in 2..Len(khach_hang) :
        /\ FieldOf(khach_hang, r, "ma_kh") = CodeAn
        /\ khach_hang[r][2] = NameBinh
        /\ khach_hang[r][3] = Quoted(PhoneBinh)

(***************************************************************************)
(* Customer codes under create_customer and delete_customer                *)
(***************************************************************************)
\* another phone that ends as An's does
PhoneLan == <<"0", "8", "1", "2", "3", "4">>
NameAnh == PyStr(<<"A", " ", "n">>)

\* bodies of POST /api/customers: An; a customer whose name without its blank starts
\* as An's and whose phone ends as An's; a customer without a phone, who gets a
\* sequential code
CodeBodies ==
    { [ten_khach_hang |-> NameAn, so_dien_thoai |-> PyStr(PhoneAn)],
      [ten_khach_hang |-> NameAnh, so_dien_thoai |-> PyStr(PhoneLan)],
      [ten_khach_hang |-> NameBinh] }

CodeFirst == PyStr(<<"K", "H", "0", "0", "0", "1">>)

\* the codes of DELETE /api/customers/<customer_code>
DeletedCodes == { CodeAn, CodeFirst, CodeB }

InitCodes ==
    /\ hoa_don = <<>>
    /\ khach_hang \in { <<headers>> : headers \in Layouts }
    /\ san_pham = <<>>
    /\ thong_ke = <<>>
    /\ call = Idle
    /\ ret = Pending

CreateCodedCustomer == CreateCustomerOf(CodeBodies)

DeleteCustomerOf(codes) ==
    /\ \E code \in codes, sheet_ok \in BOOLEAN :
        /\ call' = [op |-> "delete_customer", code |-> code, sheet_ok |-> sheet_ok]
        /\ khach_hang' = delete_customer(khach_hang, code, sheet_ok).sheet
        /\ ret' = delete_customer(khach_hang, code, sheet_ok).result
    /\ UNCHANGED <<hoa_don, san_pham, thong_ke>>

DeleteCustomer == DeleteCustomerOf(DeletedCodes)

NextCodes == CreateCodedCustomer \/ DeleteCustomer

SpecCodes == InitCodes /\ [][NextCodes]_vars

\* C20: after any sequence of create_customer and delete_customer from an empty
\* customer table no two customer rows have the same code
C20_CodesUnique ==
    \A r, q \in 2..Len(khach_hang) :
        FieldOf(khach_hang, r, "ma_kh") = FieldOf(khach_hang, q, "ma_kh") => r = q

\* what holds of the code: a sequential code is the number of the rows under the
\* header, plus one, at the time of the creation
SequentialCodeCountsRows ==
    (call.op = "create_customer" /\ ret.success
     /\ "so_dien_thoai" \notin DOMAIN call.customer_data)
        => ret.customer_code.s = <<"K", "H">> \o Zfill(NatStr(Len(khach_hang) - 1), 4)

(***************************************************************************)
(* The invoice table across the operations                                 *)
(***************************************************************************)
\* the rows of HOA_DON before the step are its first rows after it, as they were
InvoicesKept ==
    /\ Len(hoa_don) <= Len(hoa_don')
    /\ \A i \in 1..Len(hoa_don) : hoa_don'[i] = hoa_don[i]

\* a save_invoice that returned success has put one row under the rows there were
OneRowAppended ==
    (call'.op = "save_invoice" /\ ret'.success)
        => /\ Len(hoa_don') = Len(hoa_don) + 1
           /\ hoa_don'[Len(hoa_don')] = AppendedInvoice(call'.invoice, call'.now)

\* C21: no operation modifies or deletes an invoice row: across every step the invoice
\* table before is a prefix of the invoice table after, and each successful
\* save_invoice appends exactly one row
C21_InvoicesAppendOnly == [][InvoicesKept /\ OneRowAppended]_vars

\* a second invoice has been saved under the first, over a sheet with customer rows
C21_Witness ==
    /\ call.op = "save_invoice"
    /\ ret.success
    /\ Len(hoa_don) = 2
    /\ Len(khach_hang) > 1

(***************************************************************************)
(* GoogleSheetsAPI.update_product and delete_product, and the operations   *)
(* that look a row up by its code.  Here san_pham is the SAN_PHAM sheet as *)
(* get_all_values shows it, header row first.                              *)
(***************************************************************************)
\* the header row of SAN_PHAM of ensure_sheets_exist
ProductHeaders == << "ma_sp", "ten_san_pham", "danh_muc", "gia" >>

\* str(KeyError(key)), the message of a request that lacks a key
KeyErrorText(key) == "'" \o key \o "'"

\* a lookup that falls back on the last row when no record has the code: a slip that
\* turns a miss into a write
RowOfRecordOrLast(all_values, header, code) ==
    LET records == get_all_records(all_values)
        found == { i \in 1..Len(records) : DictGet(records[i], header, PyNone) = code }
    IN IF found = {} THEN (IF Len(records) > 0 THEN Len(all_values) ELSE 0)
       ELSE 1 + CHOOSE i \in found : \A j \in found : i <= j

\* the row number of the first record whose field is the code, 0 for none: the loop
\* over enumerate(records, start=2)
RowOfRecord(all_values, header, code) ==
    LET records == get_all_records(all_values)
        found == { i \in 1..Len(records) : DictGet(records[i], header, PyNone) = code }
    IN IF found = {} THEN 0 ELSE 1 + CHOOSE i \in found : \A j \in found : i <= j

\* update_product: product is the dict of the request, a function from the keys it has;
\* the three cells are written one by one, each after its key is read
update_product(all_values, code, product, sheet_ok) ==
    IF ~sheet_ok THEN [sheet |-> all_values, result |-> Failure("worksheet")]
    ELSE
      LET i == RowOfRecord(all_values, "ma_sp", code)
          named == UpdateCell(all_values, i, 2, product.name)
          sorted == UpdateCell(named, i, 3, product.category)
      IN IF i = 0
         THEN [sheet |-> all_values, result |-> Failure("Khong tim thay san pham")]
         ELSE IF "name" \notin DOMAIN product
         THEN [sheet |-> all_values, result |-> Failure(KeyErrorText("name"))]
         ELSE IF "category" \notin DOMAIN product
         THEN [sheet |-> named, result |-> Failure(KeyErrorText("category"))]
         ELSE IF "price" \notin DOMAIN product
         THEN [sheet |-> sorted, result |-> Failure(KeyErrorText("price"))]
         ELSE [sheet |-> UpdateCell(sorted, i, 4, product.price),
               result |-> Done("Da cap nhat san pham")]

\* worksheet.delete_rows(i)
DeleteRow(all_values, i) ==
    [r \in 1..(Len(all_values) - 1) |-> IF r < i THEN all_values[r] ELSE all_values[r + 1]]

\* delete_product
delete_product(all_values, code, sheet_ok) ==
    IF ~sheet_ok THEN [sheet |-> all_values, result |-> Failure("worksheet")]
    ELSE IF RowOfRecord(all_values, "ma_sp", code) = 0
    THEN [sheet |-> all_values, result |-> Failure("Khong tim thay san pham")]
    ELSE [sheet |-> DeleteRow(all_values, RowOfRecord(all_values, "ma_sp", code)),
          result |-> Done("Da xoa san pham")]

\* KHACH_HANG sheets of both layouts: no sheet, the header alone, An, An and a customer
\* whose code is made of digits
LookupCustomers(headers) ==
    { <<headers>>,
      <<headers, TableRow(headers, CodeA, NameAn, Quoted(PhoneAn), PyStr(<<"0">>))>>,
      <<headers, TableRow(headers, CodeA, NameAn, Quoted(PhoneAn), PyStr(<<"0">>)),
        TableRow(headers, PyStr(CodeDigits), NameBinh, Quoted(PhoneBinh), CachedTotal)>> }

CodeP1 == PyStr(<<"P", "1">>)

\* SAN_PHAM sheets: no sheet, the header alone, one product, and a second whose code
\* is made of digits
LookupProducts ==
    { <<>>, <<ProductHeaders>>,
      <<ProductHeaders, <<CodeP1, Coffee, PyStr(<<"d">>), PyStr(<<"2", "0", "0", "0", "0">>)>> >>,
      <<ProductHeaders, <<CodeP1, Coffee, PyStr(<<"d">>), PyStr(<<"2", "0", "0", "0", "0">>)>>,
        <<PyStr(CodeDigits), Tea, PyStr(<<"d">>), PyStr(<<"1", "5", "0", "0", "0">>)>> >> }

\* the codes of the URLs: of a customer, of a product, of digits, of no row
LookupCodes == { CodeA, CodeP1, PyStr(CodeDigits), CodeB }

\* data['product'] of PUT /api/products/<product_id>: whole, and without its category
ProductBodies ==
    { [name |-> Tea, category |-> PyStr(<<"d">>), price |-> PyInt(15000)],
      [name |-> Tea, price |-> PyInt(15000)] }

InitLookup ==
    /\ hoa_don = <<>>
    /\ khach_hang \in { <<>> } \cup UNION { LookupCustomers(headers) : headers \in Layouts }
    /\ san_pham \in LookupProducts
    /\ thong_ke = <<>>
    /\ call = Idle
    /\ ret = Pending

UpdateLookedUpCustomer == UpdateCustomerOf(LookupCodes, UpdateBodies)

DeleteLookedUpCustomer == DeleteCustomerOf(LookupCodes)

UpdateProduct ==
    /\ \E code \in LookupCodes, product \in ProductBodies, sheet_ok \in BOOLEAN :
        /\ call' = [op |-> "update_product", code |-> code, product |-> product,
                    sheet_ok |-> sheet_ok]
        /\ san_pham' = update_product(san_pham, code, product, sheet_ok).sheet
        /\ ret' = update_product(san_pham, code, product, sheet_ok).result
    /\ UNCHANGED <<hoa_don, khach_hang, thong_ke>>

DeleteProduct ==
    /\ \E code \in LookupCodes, sheet_ok \in BOOLEAN :
        /\ call' = [op |-> "delete_product", code |-> code, sheet_ok |-> sheet_ok]
        /\ san_pham' = delete_product(san_pham, code, sheet_ok).sheet
        /\ ret' = delete_product(san_pham, code, sheet_ok).result
    /\ UNCHANGED <<hoa_don, khach_hang, thong_ke>>

NextLookup ==
    \/ UpdateLookedUpCustomer
    \/ DeleteLookedUpCustomer
    \/ UpdateProduct
    \/ DeleteProduct

SpecLookup == InitLookup /\ [][NextLookup]_vars

\* no row under the header of the sheet shows the code in the column of that name
NoRowHas(all_values, header, code) ==
    \A r \in 2..Len(all_values) : FieldOf(all_values, r, header) # code

\* the step is a lookup by a code that no row of the table looked in has
LookupMisses ==
    \/ call'.op = "update_customer" /\ NoRowHas(khach_hang, "ma_kh", call'.customer_code)
    \/ call'.op = "delete_customer" /\ NoRowHas(khach_hang, "ma_kh", call'.code)
    \/ call'.op \in {"update_product", "delete_product"}
          /\ NoRowHas(san_pham, "ma_sp", call'.code)

\* C22: update_customer, delete_customer, update_product and delete_product called with
\* a code that matches no row return a result with success false and a message,
\* raise nothing, and leave every table unchanged
C22_LookupMiss ==
    [][LookupMisses => /\ ret'.t = "dict"
                       /\ ~ret'.success
                       /\ ret'.message # ""
                       /\ UNCHANGED <<hoa_don, khach_hang, san_pham, thong_ke>>]_vars

\* delete_product has read a sheet of two products, neither with the code, and failed
C22_Witness ==
    /\ call.op = "delete_product"
    /\ call.sheet_ok
    /\ Len(san_pham) = 3
    /\ NoRowHas(san_pham, "ma_sp", call.code)
    /\ ~ret.success

(***************************************************************************)
(* The form of the keys of _parse_invoice_date                             *)
(***************************************************************************)
\* dates to compare a key with: 31 December 2023, 5 March 2024, 15 March 2024
ReferenceDays == { 20231231, 20240305, 20240315 }

\* the canonical key of a day given as the number yyyymmdd
KeyOfDay(n) ==
    PadNum(n \div 10000, 4) \o <<"-">> \o PadNum((n \div 100) % 100, 2)
        \o <<"-">> \o PadNum(n % 100, 2)

\* C23: every result of _parse_invoice_date other than None is a key of exactly the form
\* YYYY-MM-DD (4 digits, '-', 2 digits, '-', 2 digits), so that the order of two keys as
\* strings is the order of their dates
C23_KeysFixedWidth ==
    (DateDone /\ ret # PyNone) =>
        /\ IsCanonicalKey(ret.s)
        /\ \A n \in ReferenceDays :
              /\ StrLeq(ret.s, KeyOfDay(n)) <=> DayNumber(ret.s) <= n
              /\ StrLeq(KeyOfDay(n), ret.s) <=> n <= DayNumber(ret.s)

\* what holds of the code: a day and a month of one or two digits and a year of one to
\* four digits give a key of the fixed form, ordered as its date
KeysOfShortDigitsFixedWidth ==
    (DateDone /\ ret # PyNone /\ Len(call.parts) = 3
     /\ \A i \in 1..3 : IsDigits(call.parts[i]) /\ call.parts[i] # <<>>
     /\ Len(call.parts[1]) <= 2 /\ Len(call.parts[2]) <= 2 /\ Len(call.parts[3]) <= 4) =>
        /\ IsCanonicalKey(ret.s)
        /\ \A n \in ReferenceDays :
              /\ StrLeq(ret.s, KeyOfDay(n)) <=> DayNumber(ret.s) <= n
              /\ StrLeq(KeyOfDay(n), ret.s) <=> n <= DayNumber(ret.s)

(***************************************************************************)
(* update_customer_spent on the header of ensure_sheets_exist              *)
(***************************************************************************)
\* the new total of the step: the parsed cached total of the matched row plus the amount
SpentWritten ==
    LET r == FoundRow(khach_hang, call'.invoice.customerPhone)
    IN SpentText(SpentOf(FieldOf(khach_hang, r, "tong_chi_tieu"))
                    + PaidOf(call'.invoice.total))

\* the matched row after the step has the new total in the field of that name and
\* every other field as before
OnlyFieldWritten(header) ==
    LET r == FoundRow(khach_hang, call'.invoice.customerPhone)
    IN \A i \in 1..Len(khach_hang[1]) :
          FieldOf(khach_hang', r, khach_hang[1][i])
            = IF khach_hang[1][i] = header THEN SpentWritten
              ELSE FieldOf(khach_hang, r, khach_hang[1][i])

\* C24: on a customer table with the 18-column header of ensure_sheets_exist,
\* update_customer_spent writes the new total into the field it read the old total
\* from, 'Tong Chi Tieu', and changes no other field of the matched row
C24_CanonicalSameField ==
    [][(SpentUpdated /\ khach_hang[1] = CustomerHeaders)
          => OnlyFieldWritten("tong_chi_tieu")]_vars

\* what holds of the code on that header: the new total lands in 'Ngay Dang Ky', the
\* sixth column, and 'Tong Chi Tieu' keeps the old total
CanonicalWriteInRegistrationDate ==
    [][(SpentUpdated /\ khach_hang[1] = CustomerHeaders)
          => OnlyFieldWritten("ngay_dang_ky")]_vars

(***************************************************************************)
(* save_invoice statement by statement: the append of line 568, the        *)
(* update_customer_spent of line 571, the update_stats of line 574, the    *)
(* return of line 576 or of line 578.  call.pc is the statement the call   *)
(* is at, call.before the three sheets as the call found them.             *)
(***************************************************************************)
\* an append that fails and is passed over, the call going on to line 571: a slip that
\* would charge the customer for an invoice that was not stored
AfterStepSwallowing(pc, ok) ==
    CASE pc = "append" -> "spent"
      [] pc = "spent" -> "stats"
      [] pc = "stats" -> "return"
      [] pc = "return" -> "returned"

\* the statement after a statement; ok: the request of the statement succeeded. The
\* append is the only one whose exception reaches the except of line 577
AfterStep(pc, ok) ==
    CASE pc = "append" -> IF ok THEN "spent" ELSE "returned"
      [] pc = "spent" -> "stats"
      [] pc = "stats" -> "return"
      [] pc = "return" -> "returned"

\* invoices for An's phone and for nobody's
StepRequests ==
    { InvoiceRequest(CodeA, NameAn, PyStr(phone), PyInt(50000), Cash) :
        phone \in { PhoneAn, PhoneNobody } }

\* no KHACH_HANG sheet, or An with a total of 0 under either header
StepSheets ==
    { <<>> } \cup { <<headers, TableRow(headers, CodeA, NameAn, Quoted(PhoneAn), PyStr(<<"0">>))>> :
                      headers \in Layouts }

InitSteps ==
    /\ hoa_don = <<>>
    /\ khach_hang \in StepSheets
    /\ san_pham = <<>>
    /\ thong_ke = <<>>
    /\ call = Idle
    /\ ret = Pending

\* handle_invoices calls save_invoice, one call after the other
StartSaveInvoice ==
    /\ call = Idle \/ (call.op = "save_invoice" /\ call.pc = "returned")
    /\ Len(hoa_don) < MaxInvoices
    /\ \E invoice \in StepRequests, now \in Clock, ok \in SheetFaults :
        call' = [op |-> "save_invoice", invoice |-> invoice, now |-> now,
                 hd_ok |-> ok.hd_ok, kh_ok |-> ok.kh_ok, tk_ok |-> ok.tk_ok,
                 pc |-> "append",
                 before |-> [hoa_don |-> hoa_don, khach_hang |-> khach_hang,
                             thong_ke |-> thong_ke]]
    /\ ret' = Pending
    /\ UNCHANGED <<hoa_don, khach_hang, san_pham, thong_ke>>

\* lines 554-568, and lines 577-578 when they raise
StepAppend ==
    /\ call.op = "save_invoice" /\ call.pc = "append"
    /\ call' = [call EXCEPT !.pc = AfterStep("append", call.hd_ok)]
    /\ hoa_don' = IF call.hd_ok
                  THEN append_row(hoa_don, AppendedInvoice(call.invoice, call.now))
                  ELSE hoa_don
    /\ ret' = IF AfterStep("append", call.hd_ok) = "returned" THEN Failure("worksheet")
              ELSE ret
    /\ UNCHANGED <<khach_hang, san_pham, thong_ke>>

\* line 571
StepSpent ==
    /\ call.op = "save_invoice" /\ call.pc = "spent"
    /\ call' = [call EXCEPT !.pc = AfterStep("spent", call.kh_ok)]
    /\ khach_hang' = update_customer_spent(khach_hang, call.invoice.customerPhone,
                                           call.invoice.total, call.kh_ok)
    /\ UNCHANGED <<hoa_don, san_pham, thong_ke, ret>>

\* line 574
StepStats ==
    /\ call.op = "save_invoice" /\ call.pc = "stats"
    /\ call' = [call EXCEPT !.pc = AfterStep("stats", call.tk_ok)]
    /\ thong_ke' = IF call.tk_ok THEN append_row(thong_ke, StatsRow(call.invoice, call.now))
                   ELSE thong_ke
    /\ UNCHANGED <<hoa_don, khach_hang, san_pham, ret>>

\* line 576
StepReturn ==
    /\ call.op = "save_invoice" /\ call.pc = "return"
    /\ call' = [call EXCEPT !.pc = AfterStep("return", TRUE)]
    /\ ret' = Done("Da luu hoa don")
    /\ UNCHANGED <<hoa_don, khach_hang, san_pham, thong_ke>>

NextSteps == StartSaveInvoice \/ StepAppend \/ StepSpent \/ StepStats \/ StepReturn

SpecSteps == InitSteps /\ [][NextSteps]_vars

\* the invoice row of the call is under the invoice rows the call found
InvoiceAppended ==
    hoa_don = Append(call.before.hoa_don, AppendedInvoice(call.invoice, call.now))

\* C25: save_invoice appends the invoice row, then updates the customer's cached total,
\* then appends the daily-stats row; when the append of the invoice fails it returns a
\* failure and neither KHACH_HANG nor THONG_KE is modified; it returns success only
\* after the invoice row has been appended
C25_SaveInvoiceOrder ==
    call.op = "save_invoice" =>
        /\ khach_hang # call.before.khach_hang => InvoiceAppended
        /\ thong_ke # call.before.thong_ke =>
              /\ InvoiceAppended
              /\ khach_hang = update_customer_spent(call.before.khach_hang,
                                  call.invoice.customerPhone, call.invoice.total,
                                  call.kh_ok)
        /\ (call.pc = "returned" /\ ~call.hd_ok) =>
              /\ ~ret.success
              /\ hoa_don = call.before.hoa_don
              /\ khach_hang = call.before.khach_hang
              /\ thong_ke = call.before.thong_ke
        /\ (ret # Pending /\ ret.success) => InvoiceAppended

\* between line 571 and line 574 of a second call: the invoice row is stored and the
\* cached total is updated, the stats row is not there yet
C25_Witness ==
    /\ call.op = "save_invoice"
    /\ call.pc = "stats"
    /\ Len(hoa_don) = 2
    /\ InvoiceAppended
    /\ khach_hang # call.before.khach_hang
    /\ thong_ke = call.before.thong_ke
    /\ ret = Pending

(***************************************************************************)
(* save_invoice calls one after the other, and the totals they add up.     *)
(* call.saved holds the invoices of the calls that returned success, and   *)
(* call.faulted tells whether a request of some call so far failed.        *)
(***************************************************************************)
\* An, with a total of 0, above Binh, under either header
SumSheets ==
    { <<headers, TableRow(headers, CodeA, NameAn, Quoted(PhoneAn), PyStr(<<"0">>)),
        TableRow(headers, CodeB, NameBinh, Quoted(PhoneBinh), CachedTotal)>> :
          headers \in Layouts }

\* invoices for An's phone, plain and with a blank, and for Binh's; totals that are
\* ints, from 0 to amounts that take a grouping comma
SumRequests ==
    { InvoiceRequest(CodeA, NameAn, PyStr(phone), PyInt(total), Cash) :
        phone \in { PhoneAn, <<"0", "9", "1", " ", "2", "3", "4">>, PhoneBinh },
        total \in { 0, 500, 50000, 990000 } }

InitSums ==
    /\ hoa_don = <<>>
    /\ khach_hang \in SumSheets
    /\ san_pham = <<>>
    /\ thong_ke = <<>>
    /\ call = [op |-> "none", saved |-> <<>>, faulted |-> FALSE]
    /\ ret = Pending

SaveInvoiceInTurn ==
    /\ Len(call.saved) < MaxInvoices
    /\ \E invoice \in SumRequests, now \in Clock, ok \in SheetFaults :
        LET out == save_invoice(hoa_don, khach_hang, thong_ke, invoice, now, ok)
        IN /\ call' = [op |-> "save_invoice",
                       saved |-> IF out.result.success THEN Append(call.saved, invoice)
                                 ELSE call.saved,
                       faulted |-> call.faulted \/ ~(ok.hd_ok /\ ok.kh_ok /\ ok.tk_ok)]
           /\ hoa_don' = out.hoa_don
           /\ khach_hang' = out.khach_hang
           /\ thong_ke' = out.thong_ke
           /\ ret' = out.result
    /\ UNCHANGED san_pham

NextSums == SaveInvoiceInTurn

SpecSums == InitSums /\ [][NextSums]_vars

\* the sum of the totals of the saved invoices that carry the phone, blanks aside
SavedFor(phone) ==
    LET mine == SelectSeq(call.saved,
                    LAMBDA invoice : Remove(invoice.customerPhone.s, " ") = phone)
    IN IntSum([i \in 1..Len(mine) |-> mine[i].total.n])

\* C26: after save_invoice calls made one after the other with totals that are
\* non-negative integers, the cached total of a customer with a phone of their own,
\* which started at 0, is the sum of the totals of the saved invoices that carry the
\* customer's phone
C26_SpentIsSum ==
    ~call.faulted => SpentOf(FieldOf(khach_hang, 2, "tong_chi_tieu")) = SavedFor(PhoneAn)

\* what holds of the code: the same over the sheets whose sixth column is 'Tong Chi
\* Tieu'
SpentIsSumInSixthColumn ==
    (~call.faulted /\ khach_hang[1][6] = "tong_chi_tieu")
        => /\ SpentOf(FieldOf(khach_hang, 2, "tong_chi_tieu")) = SavedFor(PhoneAn)
           /\ (SavedFor(PhoneAn) > 0
                 => FieldOf(khach_hang, 2, "tong_chi_tieu") = SpentText(SavedFor(PhoneAn)))

(***************************************************************************)
(* get_revenue_stats against the date filter                               *)
(***************************************************************************)
\* the revenues of the entries of the result, in the order of the result
EntryRevenues == [j \in 1..Len(ret.data.items) |-> ret.data.items[j].revenue]

\* C27: when both date bounds are given, the bucket revenues get_revenue_stats returns
\* for a period of day, week or month sum to the total of the parsed totals of the
\* invoices _filter_invoices_by_date keeps for the same bounds: the bucketing neither
\* drops an invoice that passed the filter nor counts it twice.
C27_BucketsSumToFiltered ==
    (RevenueDone /\ BothBounds) =>
        /\ ret.success
        /\ FSum(EntryRevenues)
             = FSum(ParsedTotals(_filter_invoices_by_date(hoa_don, call.date_from,
                                                          call.date_to)))

\* the cell does not begin with a blank: the first blank-separated piece of the cell
\* is the one the normaliser reads after stripping
NoLeadingBlank(cell) == cell.t = "str" => (cell.s = <<>> \/ cell.s[1] # " ")

\* over sheets whose cells do not begin with a blank the sums do agree
BucketsSumWithoutLeadingBlank ==
    (\A i \in 1..Len(hoa_don) : NoLeadingBlank(hoa_don[i].ngay_gio))
        => C27_BucketsSumToFiltered

\* the positions in HOA_DON of the invoices the loop files under a key
Bucketed ==
    { i \in 1..Len(hoa_don) :
        InRange(hoa_don[i]) /\ RevenueKey(hoa_don[i], call.period) # PyNone }

\* C28: with period 'day', two invoices whose timestamps normalise to the same
\* canonical date key are summed into the same bucket, so the result holds at most one
\* entry per calendar date: invoices of one date are filed under one key, and the
\* entries are no more than the dates of the invoices filed.
C28_OneEntryPerDate ==
    (RevenueDone /\ call.period = "day") =>
        /\ ret.success
        /\ \A i, k \in Bucketed \cap DatedInRange :
              _parse_invoice_date(hoa_don[i].ngay_gio)
                    = _parse_invoice_date(hoa_don[k].ngay_gio)
                => RevenueKey(hoa_don[i], "day") = RevenueKey(hoa_don[k], "day")
        /\ Bucketed \subseteq DatedInRange
             => Len(ret.data.items)
                  <= Cardinality({ _parse_invoice_date(hoa_don[i].ngay_gio) :
                                     i \in Bucketed })

\* over sheets of cells as save_invoice writes them there is one entry per date
OneEntryPerDateOfPlainStamps ==
    (\A i \in 1..Len(hoa_don) : PlainStamp(hoa_don[i].ngay_gio)) => C28_OneEntryPerDate

(***************************************************************************)
(* get_product_stats: invoices whose line items fail partway              *)
(***************************************************************************)
\* the cell decodes to a list and processing one of its line items raises
FailsOnLineItem(invoice) ==
    /\ IsItemList(invoice.chi_tiet_sp)
    /\ \E i \in 1..Len(invoice.chi_tiet_sp.v.items) :
          LineItemRaises(invoice.chi_tiet_sp.v.items[i])

\* C29: in get_product_stats each in-range invoice contributes all or nothing: if
\* processing any line item of an invoice fails, none of that invoice's line items is
\* reflected in the accumulated quantities and revenues, so the result is the one the
\* sheet gives without the invoices that fail on a line item.
C29_InvoiceAllOrNothing ==
    ProductsDone =>
        /\ ret.success
        /\ ret = get_product_stats(SelectSeq(hoa_don, LAMBDA invoice :
                                                ~FailsOnLineItem(invoice)),
                                   call.date_from, call.date_to, TRUE)

\* the first line item of the list is one that raises
FailsOnFirstLineItem(invoice) ==
    /\ IsItemList(invoice.chi_tiet_sp)
    /\ invoice.chi_tiet_sp.v.items # <<>>
    /\ LineItemRaises(invoice.chi_tiet_sp.v.items[1])

\* an invoice contributes nothing when the line item that fails is its first one
AllOrNothingWhenFirstLineFails ==
    (\A i \in 1..Len(hoa_don) :
        FailsOnLineItem(hoa_don[i]) => FailsOnFirstLineItem(hoa_don[i]))
    => C29_InvoiceAllOrNothing

(***************************************************************************)
(* add_customer, call after call, on a KHACH_HANG sheet without customers  *)
(***************************************************************************)
PhoneAnDashed == <<"0", "9", "1", "-", "2", "3", "4">>
PhoneAnBracketed == <<"(", "0", "9", "1", ")", " ", "2", "3", "4">>
PhoneAnQuoted == <<"'">> \o PhoneAn

\* customers of POST /api/customers: An, An's phone typed three other ways (with a
\* dash, with brackets and a blank, with the quote the sheet shows it with), a
\* customer whose phone ends as An's, and one whose phone shares nothing with it
AddedPhones == { PhoneAn, PhoneAnDashed, PhoneAnBracketed, PhoneAnQuoted, PhoneLan,
                 <<"0", "7", "5", "5", "6", "6">> }
PhoneBook ==
    { [code |-> CodeA, name |-> NameAn, phone |-> PyStr(phone),
       last4 |-> PyStr(Last4(PlainPhone(phone)))] : phone \in AddedPhones }

InitAdds ==
    /\ hoa_don = <<>>
    /\ khach_hang \in { <<headers>> : headers \in Layouts }
    /\ san_pham = <<>>
    /\ thong_ke = <<>>
    /\ call = Idle
    /\ ret = Pending

AddListedCustomer == AddCustomerOf(PhoneBook)

NextAdds == AddListedCustomer

SpecAdds == InitAdds /\ [][NextAdds]_vars

\* the phone the sheet stores for its i-th customer, as add_customer compares it: the
\* field 'So Dien Thoai' without quote, blanks, '-', '(' and ')'
StoredPhone(all_values, i) ==
    PlainPhone(Remove(StrOf(DictGet(get_all_records(all_values)[i], "so_dien_thoai",
                                    PyStr(<<>>))), "'"))

\* the new customer's phone normalised the same way
NewPhone(customer) == PlainPhone(Remove(customer.phone.s, "'"))

\* some customer of the sheet has the phone
PhoneStored(all_values, phone) ==
    \E i \in 1..(Len(all_values) - 1) : StoredPhone(all_values, i) = phone

\* no two customers of the sheet have the same phone
PhonesDistinct(all_values) ==
    \A i, j \in 1..(Len(all_values) - 1) :
        i # j => StoredPhone(all_values, i) # StoredPhone(all_values, j)

\* a call of add_customer with a phone the sheet stores fails and appends no row
DuplicateRejected ==
    (call'.op = "add_customer" /\ PhoneStored(khach_hang, NewPhone(call'.customer)))
        => /\ ret'.success = FALSE
           /\ ret'.message # ""
           /\ khach_hang' = khach_hang

\* C30: add_customer rejects a duplicate phone: if the stored phone of some customer,
\* without the quote, blanks, '-', '(' and ')', equals the new customer's phone
\* normalised the same way, add_customer returns success=false and appends no row;
\* so in a sequence of add_customer calls on a table that starts without customers no
\* two customer rows share a normalised phone.
C30_DuplicatePhoneRejected == [][DuplicateRejected /\ PhonesDistinct(khach_hang')]_vars

\* the sheet has the phone in its third column, where add_customer writes it, and the
\* new customer's phone is given without a quote
PhoneInThirdColumn ==
    /\ khach_hang[1] = LegacyHeaders
    /\ call'.op = "add_customer" => Remove(call'.customer.phone.s, "'") = call'.customer.phone.s

\* on such a sheet a phone given without a quote is rejected when it is stored
DuplicateRejectedInThirdColumn ==
    [][PhoneInThirdColumn => DuplicateRejected]_vars

\* and while every phone is given without a quote, the phones of the sheet are distinct
UnquotedAddsDistinct ==
    [][(PhoneInThirdColumn /\ PhonesDistinct(khach_hang)) => PhonesDistinct(khach_hang')]_vars
====
